---- MODULE Spec2Model ----
(***************************************************************************)
(* A model of the HTML-to-PowerPoint converter (src/src/main.py).          *)
(*                                                                         *)
(* Text is a sequence of one-character strings.  A Python float is a       *)
(* record [kind, milli]: kind "num" carries the value in thousandths       *)
(* (the numerals of the model carry at most three decimals), "big" is a    *)
(* finite value above the exactly modelled range, "inf" is the float       *)
(* infinity that float() returns for a decimal beyond the double range,    *)
(* and "err" is the ValueError float() raises.                             *)
(***************************************************************************)
EXTENDS Integers, Sequences, FiniteSets, TLC

VARIABLES
    style_src,      \* the pieces the style string is composed of
    style,          \* the CSS style string handed to a style parser
    phase,          \* which style operation has run on it
    color_out,      \* result of parse_color(style)
    gradient_out,   \* result of parse_linear_gradient(style)
    slide_fill,     \* background fill of the slide add_slide_with_gradient_background made
    pc,             \* position of extract_data_from_html / the worker in one slide
    top_remaining,  \* top-level child elements of the container not yet visited
    stack,          \* active calls of parse_element_recursively, innermost last
    element_counter,\* element_counter['i'] of the slide
    elements,       \* slide_data.elements
    last,           \* the call of parse_element_recursively that ended last
    skipped,        \* elements left unvisited when an exception ended the slide
    shapes,         \* shapes added to the output slide, in order
    page,           \* what the raster captures changed in the page and did not undo
    main_pc,        \* position of main
    requested,      \* args.workers
    html_files,     \* the sorted list of input files
    file_chunks,    \* the chunk of files of each worker
    workers,        \* the state of each call of process_files_worker
    written,        \* the paths written so far, with the worker and file writing them
    file_pc,        \* position of the worker in one file
    slide_elements, \* the '.slide' containers of the page, as the browser answers for them
    slide_i,        \* the index i of the loop over slide_elements
    slides_data,    \* slides_data of extract_data_from_html
    prs_slides,     \* the slides added to the presentation, in order
    browser_log,    \* what extract_data_from_html has asked of the browser before the slide loop
    dom_pc,         \* position of extract_data_from_html in a slide given as a tree of elements
    slide_dom,      \* the child elements of the '.slide' container, as a forest
    dom_i,          \* the index i of the slide in the page
    containers_to_process, \* containers_to_process, each container as its path in the slide
    container_k,    \* the container the loop over containers_to_process is at
    child_k,        \* children of that container already handed to the extractor
    visits,         \* the calls of parse_element_recursively so far, in order
    raster_files    \* the raster files written for the slide, in order

extract_vars == <<pc, top_remaining, stack, element_counter, elements, last, skipped, shapes, page>>

style_vars == <<style_src, style, phase, color_out, gradient_out, slide_fill>>

batch_vars == <<main_pc, requested, html_files, file_chunks, workers, written>>

file_vars == <<file_pc, slide_elements, slide_i, slides_data, prs_slides, browser_log>>

dom_vars == <<dom_pc, slide_dom, dom_i, containers_to_process, container_k, child_k, visits, raster_files>>

----------------------------------------------------------------------------
(* Bounds of the model *)

\* most numeric tokens in a generated colour string
MaxNums == 4
\* most colour stops in a generated gradient string
MaxStops == 3
\* most elements the browser reports for one slide
MaxElements == 3
\* most input files of a batch
MaxFiles == 3
\* largest number of workers asked for
MaxWorkers == 2
\* most slide containers of a page
MaxSlides == 3

----------------------------------------------------------------------------
(* Text helpers (Python str operations used by the parsers) *)

Digits == {"0","1","2","3","4","5","6","7","8","9"}

DigitVal(c) ==
    CASE c = "0" -> 0 [] c = "1" -> 1 [] c = "2" -> 2 [] c = "3" -> 3
      [] c = "4" -> 4 [] c = "5" -> 5 [] c = "6" -> 6 [] c = "7" -> 7
      [] c = "8" -> 8 [] c = "9" -> 9

\* str.isspace for one character
IsSpace(c) == c \in {" "}

\* s[i:j] with Python's 0-based, end-exclusive indices (0 <= i, j <= len)
Slice(s, i, j) == IF j <= i THEN <<>> ELSE SubSeq(s, i + 1, j)

\* s.startswith(p)
StartsWith(s, p) == Len(s) >= Len(p) /\ SubSeq(s, 1, Len(p)) = p

\* the least element of a non-empty set of integers
Least(S) == CHOOSE x \in S : \A y \in S : x <= y

\* s.find(p): 0-based index of the first occurrence, -1 when there is none
Find(s, p) ==
    LET at == { i \in 0..(Len(s) - Len(p)) : SubSeq(s, i + 1, i + Len(p)) = p }
    IN  IF at = {} THEN -1 ELSE Least(at)

\* p in s
Contains(s, p) == Find(s, p) # -1

\* s.strip()
Strip(s) ==
    LET keep == { i \in 1..Len(s) : ~IsSpace(s[i]) }
    IN  IF keep = {} THEN <<>>
        ELSE SubSeq(s, Least(keep), CHOOSE x \in keep : \A y \in keep : y <= x)

\* the text made of n copies of the character c
Rep(c, n) == [i \in 1..n |-> c]

\* sep.join(parts)
RECURSIVE Join(_, _)
Join(parts, sep) ==
    IF parts = <<>> THEN <<>>
    ELSE IF Len(parts) = 1 THEN parts[1]
    ELSE parts[1] \o sep \o Join(Tail(parts), sep)

\* end (0-based, exclusive) of the maximal run of characters of set cls that
\* starts at 0-based index i
RunEnd(s, i, cls) ==
    Least({ j \in i..Len(s) : j = Len(s) \/ s[j + 1] \notin cls })

----------------------------------------------------------------------------
(* Python float() and int() on the numeric tokens the regular expressions  *)
(* cut out                                                                 *)

\* decimal digits of the largest finite double, 1.7976931348623158e308:
\* a 309-digit integer at or above this prefix converts to infinity
DoubleMaxPrefix == <<1,7,9,7,6,9,3,1,3,4,8,6,2,3,1,5,8>>

\* the digits without their leading zeros
StripZeros(ds) == Slice(ds, RunEnd(ds, 0, {"0"}), Len(ds))

\* lexicographic test ds >= DoubleMaxPrefix on the leading digits
RECURSIVE AtLeastPrefix(_, _)
AtLeastPrefix(ds, i) ==
    IF i > Len(DoubleMaxPrefix) THEN TRUE
    ELSE IF DigitVal(ds[i]) > DoubleMaxPrefix[i] THEN TRUE
    ELSE IF DigitVal(ds[i]) < DoubleMaxPrefix[i] THEN FALSE
    ELSE AtLeastPrefix(ds, i + 1)

RECURSIVE DigitsToInt(_, _)
DigitsToInt(ds, acc) ==
    IF ds = <<>> THEN acc ELSE DigitsToInt(Tail(ds), acc * 10 + DigitVal(Head(ds)))

\* the first three decimals, in thousandths
FracMilli(fs) ==
    LET d(i) == IF i <= Len(fs) THEN DigitVal(fs[i]) ELSE 0
    IN  d(1) * 100 + d(2) * 10 + d(3)

FloatErr == [kind |-> "err", milli |-> 0]
FloatNum(m) == [kind |-> "num", milli |-> m]

\* the float of the significant integer digits sig and the fraction digits fp
FloatOfDigits(sig, fp) ==
    IF Len(sig) > 309 THEN [kind |-> "inf", milli |-> 0]
    ELSE IF Len(sig) = 309 /\ AtLeastPrefix(sig, 1) THEN [kind |-> "inf", milli |-> 0]
    ELSE IF Len(sig) > 6 THEN [kind |-> "big", milli |-> 0]
    ELSE FloatNum(DigitsToInt(sig, 0) * 1000 + FracMilli(fp))

\* float() of the token tok with integer part ip and fraction part fp
FloatOfParts(tok, ip, fp) ==
    IF \E i \in 1..Len(tok) : tok[i] \notin Digits \cup {"."} THEN FloatErr
    ELSE IF \E i \in 1..Len(fp) : fp[i] = "." THEN FloatErr
    ELSE IF ip = <<>> /\ fp = <<>> THEN FloatErr
    ELSE FloatOfDigits(StripZeros(ip), fp)

\* float() of the token tok whose first dot is at 0-based index dot (-1: none)
FloatAtDot(tok, dot) ==
    IF dot = -1 THEN FloatOfParts(tok, tok, <<>>)
    ELSE FloatOfParts(tok, Slice(tok, 0, dot), Slice(tok, dot + 1, Len(tok)))

\* float() of an unsigned token made of digits and dots
UFloat(tok) == FloatAtDot(tok, Find(tok, <<".">>))

Negated(u) == IF u.kind = "num" THEN FloatNum(0 - u.milli) ELSE u

\* float(tok): an optional leading sign, then an unsigned decimal
ToFloat(tok) ==
    IF tok # <<>> /\ Head(tok) = "-" THEN Negated(UFloat(Tail(tok))) ELSE UFloat(tok)

----------------------------------------------------------------------------
(* parse_color *)

\* re.findall(r'[\d.]+', s): the maximal runs of digits and dots, in order
RECURSIVE FindAllNum(_, _)
FindAllNum(s, i) ==
    IF i >= Len(s) THEN <<>>
    ELSE IF s[i + 1] \in Digits \cup {"."}
         THEN LET e == RunEnd(s, i, Digits \cup {"."})
              IN  <<Slice(s, i, e)>> \o FindAllNum(s, e)
         ELSE FindAllNum(s, i + 1)

\* a result of parse_color: the tuple returned (alpha in thousandths), or the
\* exception that escapes the function
ColorOk(r, g, b, a) == [exc |-> "none", rgba |-> <<r, g, b, a>>]
ColorRaise(e) == [exc |-> e, rgba |-> <<0, 0, 0, 0>>]
TransparentBlack == ColorOk(0, 0, 0, 0)

Min(a, b) == IF a < b THEN a ELSE b
Max(a, b) == IF a > b THEN a ELSE b

\* max(0, min(255, int(f))) for a float that int() accepts
ClampChannel(f) == IF f.kind = "big" THEN 255 ELSE Max(0, Min(255, f.milli \div 1000))

\* max(0.0, min(1.0, f)), in thousandths
ClampAlpha(f) == IF f.kind \in {"big", "inf"} THEN 1000 ELSE Max(0, Min(1000, f.milli))

\* line 139: a = float(parts[3]) if len(parts) > 3 else 1.0
AlphaOf(parts) == IF Len(parts) > 3 THEN ToFloat(parts[4]) ELSE FloatNum(1000)

\* lines 136-147: int(float(..)) of r, g, b in order, then float() of alpha;
\* the first failure decides
ColorOfFloats(fr, fg, fb, fa) ==
    LET bad(f) == f.kind \in {"err", "inf"}
        first  == IF bad(fr) THEN fr.kind
                  ELSE IF bad(fg) THEN fg.kind
                  ELSE IF bad(fb) THEN fb.kind
                  ELSE IF fa.kind = "err" THEN "err"
                  ELSE "ok"
    IN  IF first = "err" THEN TransparentBlack        \* ValueError: caught at line 148
        ELSE IF first = "inf" THEN ColorRaise("OverflowError")  \* int(inf): not caught
        ELSE ColorOk(ClampChannel(fr), ClampChannel(fg), ClampChannel(fb), ClampAlpha(fa))

\* lines 135-147 on the tokens found
ColorOfParts(parts) ==
    IF Len(parts) < 3 THEN TransparentBlack
    ELSE ColorOfFloats(ToFloat(parts[1]), ToFloat(parts[2]), ToFloat(parts[3]), AlphaOf(parts))

parse_color(color_str) ==
    IF color_str = <<>>
       \/ color_str \in { <<"t","r","a","n","s","p","a","r","e","n","t">>, <<"i","n","h","e","r","i","t">>, <<"i","n","i","t","i","a","l">>, <<"u","n","s","e","t">> }
    THEN TransparentBlack
    ELSE ColorOfParts(FindAllNum(color_str, 0))

----------------------------------------------------------------------------
(* parse_linear_gradient *)

\* lines 180-191: from the character after "linear-gradient(" find the
\* parenthesis that closes it; end_pos is the end of the content
RECURSIVE ScanClose(_, _, _, _)
ScanClose(s, pos, paren_count, end_pos) ==
    IF pos < Len(s) /\ paren_count > 0
    THEN LET c  == s[pos + 1]
             cnt == CASE c = "(" -> paren_count + 1
                      [] c = ")" -> paren_count - 1
                      [] OTHER -> paren_count
         IN  ScanClose(s, pos + 1, cnt, IF cnt > 0 THEN pos + 1 ELSE end_pos)
    ELSE [paren_count |-> paren_count, end_pos |-> end_pos]

\* a split at every comma, whatever the parenthesis depth
RECURSIVE SplitTop_every_comma(_, _, _, _)
SplitTop_every_comma(content, i, paren_count, current_part) ==
    IF i >= Len(content)
    THEN IF Strip(current_part) # <<>> THEN <<Strip(current_part)>> ELSE <<>>
    ELSE IF content[i + 1] = ","
         THEN <<Strip(current_part)>> \o SplitTop_every_comma(content, i + 1, paren_count, <<>>)
         ELSE SplitTop_every_comma(content, i + 1, paren_count, Append(current_part, content[i + 1]))

\* lines 200-216: split the content at the commas outside parentheses
RECURSIVE SplitTop(_, _, _, _)
SplitTop(content, i, paren_count, current_part) ==
    IF i >= Len(content)
    THEN IF Strip(current_part) # <<>> THEN <<Strip(current_part)>> ELSE <<>>
    ELSE LET c == content[i + 1]
         IN  CASE c = "(" -> SplitTop(content, i + 1, paren_count + 1, Append(current_part, c))
               [] c = ")" -> SplitTop(content, i + 1, paren_count - 1, Append(current_part, c))
               [] c = "," /\ paren_count = 0 ->
                      <<Strip(current_part)>> \o SplitTop(content, i + 1, paren_count, <<>>)
               [] OTHER -> SplitTop(content, i + 1, paren_count, Append(current_part, c))

\* line 228: re.search(r'([\d.-]+)deg', s): group 1 of the leftmost match,
\* <<>> when nothing matches
RECURSIVE SearchAngle(_, _)
SearchAngle(s, i) ==
    IF i >= Len(s) THEN <<>>
    ELSE IF s[i + 1] \in Digits \cup {".", "-"}
         THEN LET e == RunEnd(s, i, Digits \cup {".", "-"})
              IN  IF StartsWith(Slice(s, e, Len(s)), <<"d","e","g">>)
                  THEN Slice(s, i, e)
                  ELSE SearchAngle(s, e)
         ELSE SearchAngle(s, i + 1)

\* lines 236-246: direction_angles.get(direction, 180)
DirectionAngle(direction) ==
    CASE direction = <<"t","o","p">> -> 0
      [] direction = <<"r","i","g","h","t">> -> 90
      [] direction = <<"b","o","t","t","o","m">> -> 180
      [] direction = <<"l","e","f","t">> -> 270
      [] direction = <<"t","o","p"," ","r","i","g","h","t">> -> 45
      [] direction = <<"b","o","t","t","o","m"," ","r","i","g","h","t">> -> 135
      [] direction = <<"b","o","t","t","o","m"," ","l","e","f","t">> -> 225
      [] direction = <<"t","o","p"," ","l","e","f","t">> -> 315
      [] OTHER -> 180

\* line 254: re.sub(r'\s+\d+%', '', s)
RECURSIVE StripPercent(_, _)
StripPercent(s, i) ==
    IF i >= Len(s) THEN <<>>
    ELSE IF IsSpace(s[i + 1])
         THEN LET w == RunEnd(s, i, {" "})
                  d == RunEnd(s, w, Digits)
              IN  IF d > w /\ d < Len(s) /\ s[d + 1] = "%"
                  THEN StripPercent(s, d + 1)
                  ELSE Slice(s, i, w) \o StripPercent(s, w)
         ELSE <<s[i + 1]>> \o StripPercent(s, i + 1)

\* a result of parse_linear_gradient: None, or the dict {angle, colors}
NoGradient == [none |-> TRUE, angle |-> FloatNum(0), colors |-> <<>>]
Gradient(angle, colors) == [none |-> FALSE, angle |-> angle, colors |-> colors]

\* line 229-232: float(angle_match.group(1)), 180 without a match
AngleOfMatch(m) == IF m = <<>> THEN FloatNum(180000) ELSE ToFloat(m)

\* the angle and the colour segments; exc is set when float() raised
AngleAndColors(angle, color_parts) ==
    [exc |-> angle.kind = "err", angle |-> angle, color_parts |-> color_parts]

\* lines 221-248: the angle and the colour segments of the split content
AngleAndColorParts(parts) ==
    IF Contains(parts[1], <<"d","e","g">>)
    THEN AngleAndColors(AngleOfMatch(SearchAngle(parts[1], 0)), Tail(parts))
    ELSE IF StartsWith(parts[1], <<"t","o"," ">>)
    THEN AngleAndColors(FloatNum(1000 * DirectionAngle(Strip(Slice(parts[1], 3, Len(parts[1]))))),
                        Tail(parts))
    ELSE AngleAndColors(FloatNum(180000), parts)

\* line 256: if rgba and rgba != (0, 0, 0, 0)
UsableColor(rgba) == rgba # <<0, 0, 0, 0>>

\* lines 251-258: the colours of the segments that parse to a usable colour
GradientColors(parsed) ==
    SelectSeq([i \in 1..Len(parsed) |-> parsed[i].rgba], UsableColor)

\* lines 252-255: parse_color of each segment without its "NN%" position
ParsedColorParts(color_parts) ==
    [i \in 1..Len(color_parts) |-> parse_color(Strip(StripPercent(color_parts[i], 0)))]

\* lines 260-265: the dict, or None without a colour
GradientOrNone(angle, colors) ==
    IF colors # <<>> THEN Gradient(angle, colors) ELSE NoGradient

\* lines 251-269: any exception is caught at line 267 and gives None
GradientOfParsed(ac, parsed) ==
    IF ac.exc \/ \E i \in 1..Len(parsed) : parsed[i].exc # "none"
    THEN NoGradient
    ELSE GradientOrNone(ac.angle, GradientColors(parsed))

GradientOfAngleAndColors(ac) == GradientOfParsed(ac, ParsedColorParts(ac.color_parts))

\* lines 218-269
GradientOfParts(parts) ==
    IF parts = <<>> THEN NoGradient
    ELSE GradientOfAngleAndColors(AngleAndColorParts(parts))

\* lines 193-216: scan is the result of the search for the closing parenthesis
GradientOfScan(gradient_str, open, scan) ==
    IF scan.paren_count # 0 THEN NoGradient
    ELSE GradientOfParts(SplitTop(Strip(Slice(gradient_str, open, scan.end_pos)), 0, 0, <<>>))

\* lines 170-191: start_pos is gradient_str.find('linear-gradient(')
GradientAt(gradient_str, start_pos) ==
    IF start_pos = -1 THEN NoGradient
    ELSE GradientOfScan(gradient_str, start_pos + 16,
                        ScanClose(gradient_str, start_pos + 16, 1, start_pos + 16))

parse_linear_gradient(gradient_str) ==
    IF gradient_str = <<>> \/ ~Contains(gradient_str, <<"l","i","n","e","a","r","-","g","r","a","d","i","e","n","t">>)
    THEN NoGradient
    ELSE GradientAt(gradient_str, Find(gradient_str, <<"l","i","n","e","a","r","-","g","r","a","d","i","e","n","t","(">>))

----------------------------------------------------------------------------
(* add_slide_with_gradient_background *)

\* one gradient stop of the fill: as python-pptx created it, or set to a colour
LibraryStop == [set |-> FALSE, rgb |-> <<0, 0, 0>>]
ColorStop(c) == [set |-> TRUE, rgb |-> <<c[1], c[2], c[3]>>]

\* the fill of a slide made from the blank layout (line 800-801): untouched
DefaultFill ==
    [kind |-> "default", angle |-> FloatNum(0), stops |-> <<LibraryStop, LibraryStop>>,
     rgb |-> <<255, 255, 255>>, warned |-> FALSE, error |-> FALSE]

\* the CSS angle as it is, without the quarter turn
PptAngle_unrotated(angle) == angle

\* line 823: ppt_angle = (gradient_info['angle'] + 90) % 360
PptAngle(angle) ==
    IF angle.kind = "num" THEN FloatNum((angle.milli + 90000) % 360000) ELSE angle

\* the first and the last colour instead of the first two
GradientStopColors_first_last(colors) == <<colors[1], colors[Len(colors)]>>

\* lines 833-852: the colours written to gradient_stops[0] and gradient_stops[1]
\* when there are at least two colours
GradientStopColors(colors) == <<colors[1], colors[2]>>

StopsOf(two) == <<ColorStop(two[1]), ColorStop(two[2])>>

\* lines 813-853: the gradient fill
GradientFill(gradient_info) ==
    [kind   |-> "gradient",
     angle  |-> PptAngle(gradient_info.angle),
     stops  |-> IF Len(gradient_info.colors) >= 2
                THEN StopsOf(GradientStopColors(gradient_info.colors))
                ELSE <<LibraryStop, LibraryStop>>,
     rgb    |-> <<255, 255, 255>>,
     warned |-> Len(gradient_info.colors) > 2,
     error  |-> FALSE]

\* lines 855-866: "if color" at line 858 is true of every 4-tuple; an
\* exception of parse_color is caught at line 868
SolidFill(color) ==
    IF color.exc # "none" THEN [DefaultFill EXCEPT !.error = TRUE]
    ELSE [kind   |-> "solid",
          angle  |-> FloatNum(0),
          stops  |-> <<LibraryStop, LibraryStop>>,
          rgb    |-> <<color.rgba[1], color.rgba[2], color.rgba[3]>>,
          warned |-> FALSE,
          error  |-> FALSE]

\* lines 810-866
FillOf(background_style, gradient_info) ==
    IF ~gradient_info.none THEN GradientFill(gradient_info)
    ELSE SolidFill(parse_color(background_style))

add_slide_with_gradient_background(background_style) ==
    IF background_style = <<>> THEN DefaultFill
    ELSE FillOf(background_style, parse_linear_gradient(background_style))

----------------------------------------------------------------------------
(* The style strings the parsers are run on *)

SeqsUpTo(S, n) == UNION { [1..k -> S] : k \in 0..n }

\* numeric tokens of a colour string
Numerals ==
    { <<"0">>, <<"4","7">>, <<"2","1","1">>, <<"3","0","0">>, <<"0",".","0","5">>, <<"1",".","2",".","3">>, <<".">> }

\* a 309-digit integer, beyond the range of a double
HugeNumeral == Rep("9", 309)

RgbaOf(nums) == <<"r","g","b","a","(">> \o Join(nums, <<",", " ">>) \o <<")">>

\* rgba(...) strings with one component beyond the double range
HugeColorInputs ==
    { RgbaOf([i \in 1..4 |-> IF i = k THEN HugeNumeral ELSE <<"4","7">>]) : k \in 1..4 }

NamedColorInputs ==
    { <<>>, <<"t","r","a","n","s","p","a","r","e","n","t">>, <<"i","n","h","e","r","i","t">>, <<"i","n","i","t","i","a","l">>, <<"u","n","s","e","t">>, <<"n","o","n","e">>, <<"r","e","d">>, <<"#","f","f","0","0","0","0">>,
      <<"r","g","b","a","(","2","1","1",",","4","7",",","4","7",",","0",".","0","5",")">>, <<"r","g","b","(","1","0",",","2","0",",","3","0",")">>, <<"h","s","l","(","1","2","0",","," ","1","0","0","%",","," ","5","0","%",")">>,
      <<"r","g","b","a","(","0",","," ","0",","," ","0",","," ","0",")"," ","n","o","n","e"," ","r","e","p","e","a","t"," ","s","c","r","o","l","l"," ","0","%"," ","0","%"," ","/"," ","a","u","t","o"," ","p","a","d","d","i","n","g","-","b","o","x"," ","b","o","r","d","e","r","-","b","o","x">> }

ColorInputs ==
    NamedColorInputs \cup HugeColorInputs
        \cup { RgbaOf(nums) : nums \in SeqsUpTo(Numerals, MaxNums) }

\* first segment of a gradient: nothing, an angle or a direction
AnglePieces ==
    { <<>>, <<"1","3","5","d","e","g">>, <<"1","8","0","d","e","g">>, <<"2","7","0","d","e","g">>, <<"4","5","0","d","e","g">>, <<"-","1","3","5","d","e","g">>, <<"0",".","5","d","e","g">>,
      <<"t","o"," ","t","o","p">>, <<"t","o"," ","r","i","g","h","t">>, <<"t","o"," ","b","o","t","t","o","m">>, <<"t","o"," ","l","e","f","t">>,
      <<"t","o"," ","t","o","p"," ","r","i","g","h","t">>, <<"t","o"," ","b","o","t","t","o","m"," ","r","i","g","h","t">>, <<"t","o"," ","b","o","t","t","o","m"," ","l","e","f","t">>, <<"t","o"," ","t","o","p"," ","l","e","f","t">>,
      <<"t","o"," ","n","o","w","h","e","r","e">>, <<"1",".","2",".","3","d","e","g">> }

\* colour segments of a gradient
StopPieces ==
    { <<"r","g","b","a","(","0",",","0",",","0",",","0",")"," ","0","%">>, <<"r","g","b","(","1","0",",","2","0",",","3","0",")"," ","1","0","0","%">>, <<"r","g","b","(","2","5","5",","," ","0",","," ","0",")">>, <<"r","g","b","a","(","2","1","1",","," ","4","7",","," ","4","7",","," ","0",".","0","5",")"," ","5","0","%">> }

GradientOf(angle, stops) ==
    <<"l","i","n","e","a","r","-","g","r","a","d","i","e","n","t","(">>
        \o Join((IF angle = <<>> THEN <<>> ELSE <<angle>>) \o stops, <<",", " ">>)
        \o <<")">>

NamedGradientInputs ==
    { <<"l","i","n","e","a","r","-","g","r","a","d","i","e","n","t","(","1","3","5","d","e","g",","," ","r","g","b","a","(","0",",","0",",","0",",","0",")"," ","0","%",","," ","r","g","b","(","1","0",",","2","0",",","3","0",")"," ","1","0","0","%",")">>,
      <<"r","g","b","a","(","0",","," ","0",","," ","0",","," ","0",")"," ","l","i","n","e","a","r","-","g","r","a","d","i","e","n","t","(","t","o"," ","r","i","g","h","t",","," ","r","g","b","(","1",","," ","2",","," ","3",")"," ","0","%",","," ","r","g","b","(","4",","," ","5",","," ","6",")"," ","1","0","0","%",")"," ","r","e","p","e","a","t"," ","s","c","r","o","l","l"," ","0","%"," ","0","%">>,
      <<"l","i","n","e","a","r","-","g","r","a","d","i","e","n","t","(","9","0","d","e","g",","," ","r","g","b","(","1",","," ","2",","," ","3",")",","," ","r","g","b","(","4",","," ","5",","," ","6",")">>,
      <<"l","i","n","e","a","r","-","g","r","a","d","i","e","n","t">>,
      <<"l","i","n","e","a","r","-","g","r","a","d","i","e","n","t","(",")">>,
      <<"l","i","n","e","a","r","-","g","r","a","d","i","e","n","t","(","r","g","b","(","1",","," ","2",","," ","3",")",","," ",","," ","r","e","d",")">> }

\* a style string given as it is, or a gradient given by its segments
TextSource(t) == [kind |-> "text", text |-> t, angle |-> <<>>, stops |-> <<>>]
GradientSource(a, st) == [kind |-> "gradient", text |-> <<>>, angle |-> a, stops |-> st]

StyleSources ==
    { TextSource(t) : t \in ColorInputs \cup NamedGradientInputs }
        \cup { GradientSource(a, st) :
                  a \in AnglePieces, st \in SeqsUpTo(StopPieces, MaxStops) \ {<<>>} }

StyleText(src) ==
    IF src.kind = "text" THEN src.text ELSE GradientOf(src.angle, src.stops)

----------------------------------------------------------------------------
(* Scene nodes (ElementData) and the answers of the browser *)

\* line 107-112
ICON_CLASSES ==
    { "material-icons", "toc-icon", "importance-icon", "limitation-icon",
      "check-icon", "partial-icon", "close-icon", "feature-icon", "section-icon",
      "api-icon", "config-icon", "case-icon", "component-icon", "mock-icon",
      "snapshot-icon", "resource-icon" }

\* Python's None
None == <<>>

\* computed background-color values of the page
BgTransparent == <<"r","g","b","a","(","0",","," ","0",","," ","0",","," ","0",")">>
BgTint == <<"r","g","b","a","(","2","1","1",","," ","4","7",","," ","4","7",","," ","0",".","0","5",")">>
BgShade == <<"r","g","b","a","(","0",","," ","0",","," ","0",","," ","0",".","8",")">>
BgWhite == <<"r","g","b","(","2","5","5",","," ","2","5","5",","," ","2","5","5",")">>

\* ElementData() of line 484 with the attributes read so far
ElementData(index, classes, geom) ==
    [index |-> index, classes |-> classes, text |-> None, geom |-> geom,
     icon_path |-> None, has_background |-> FALSE, children |-> <<>>]

NoGeom == [x |-> 0, y |-> 0, width |-> 0, height |-> 0, background_color |-> <<>>]

\* the child nodes of an element as the script of lines 530-556 sees them:
\* a text node (nodeType 3) with its nodeValue, or an element (nodeType 1)
\* with its tagName and innerText
TextNode(value) == [nodeType |-> 3, tagName |-> "", text |-> value]
ElementNode(tag, inner) == [nodeType |-> 1, tagName |-> tag, text |-> inner]

\* white space removed by String.prototype.trim
IsJsSpace(c) == c \in {" ", "\n", "\t"}

\* s.trim()
Trim(s) ==
    LET keep == { i \in 1..Len(s) : ~IsJsSpace(s[i]) }
    IN  IF keep = {} THEN <<>>
        ELSE SubSeq(s, Least(keep), CHOOSE x \in keep : \A y \in keep : y <= x)

\* line 535: the characters of the range \u4e00-\u9fa5; in a text of the model
\* such a character is one element, written by its code point
WideChars == {"U+4E2D"}

\* lines 531-538: a character of the range counts 2, any other 1
RECURSIVE calculateWidth(_)
calculateWidth(text) ==
    IF text = <<>> THEN 0
    ELSE (IF Head(text) \in WideChars THEN 2 ELSE 1) + calculateWidth(Tail(text))

\* lines 541-554: the piece of text one child node gives
NodeText(node) ==
    IF node.nodeType = 3 THEN Trim(node.text)
    ELSE IF node.nodeType = 1 /\ node.tagName = "SPAN"
         THEN Rep(" ", calculateWidth(Trim(node.text)) * 2)
    ELSE IF node.nodeType = 1 /\ node.tagName = "BR" THEN <<"\n">>
    ELSE IF node.nodeType = 1 /\ node.tagName = "I" THEN <<" ", " ", " ", " ">>
    ELSE <<>>

\* line 541: .map(node => ...)
RECURSIVE MapNodeText(_)
MapNodeText(childNodes) ==
    IF childNodes = <<>> THEN <<>>
    ELSE <<NodeText(Head(childNodes))>> \o MapNodeText(Tail(childNodes))

\* lines 540-555: what the script returns for an element
js_get_text(childNodes) == Join(MapNodeText(childNodes), <<" ">>)

\* line 576: the number of elements find_elements(By.XPATH, "./*") lists
ElementCount(childNodes) ==
    Cardinality({ i \in 1..Len(childNodes) : childNodes[i].nodeType = 1 })

Words == TextNode(<<"T">>)
Blank == TextNode(<<"\n", " ">>)
Div == ElementNode("DIV", <<"T">>)
Span == ElementNode("SPAN", <<"T">>)

\* the child nodes an element of the model may have: none, words, one or two
\* elements
ChildNodeLists == { <<>>, <<Words>>, <<Div>>, <<Div, Div>> }

\* what the browser answers for one element: whether tag and class can be
\* read, the class list, the size ("ok", "zero", or "raise" when reading the
\* geometry or a style property fails), the box and background colour, the
\* outcome of a raster capture, the child nodes with the direct text the
\* script returns for them (or that running it fails) and the number of child
\* elements (-1: find_elements raises)
Answer(readable, classes, size, x, width, bg, capture, text_raises, child_nodes, list_raises) ==
    [readable |-> readable, classes |-> classes, size |-> size,
     x |-> x, width |-> width, background_color |-> bg, capture |-> capture,
     text_raises |-> text_raises, child_nodes |-> child_nodes,
     text |-> js_get_text(child_nodes),
     children |-> IF list_raises THEN -1 ELSE ElementCount(child_nodes)]

\* the child counts an element may report
ChildCounts == {0, 1, 2}

Answers ==
    \* a stale element: tag_name or get_attribute raises
    { Answer(FALSE, {}, "raise", 0, 0, BgTransparent, "none", FALSE, <<>>, FALSE) }
    \* not laid out, or its geometry cannot be read
    \cup { Answer(TRUE, {}, sz, 0, 0, BgTransparent, "none", FALSE, <<Words>>, FALSE) :
             sz \in {"zero", "raise"} }
    \* an icon with a tint and an inline element that is not laid out
    \cup { Answer(TRUE, {"material-icons"}, "zero", 0, 0, BgTint, "path", FALSE, <<Words, Span>>, FALSE) }
    \* an icon: the glyph name is its text
    \cup { Answer(TRUE, {"material-icons"}, "ok", 40, 24, BgTransparent, cap, FALSE, nodes, FALSE) :
             cap \in {"path", "none", "raise"}, nodes \in {<<Words>>, <<Words, Span>>} }
    \* a code block
    \cup { Answer(TRUE, {"code-block"}, "ok", 40, 200, BgWhite, cap, FALSE, nodes, FALSE) :
             cap \in {"path", "none"}, nodes \in {<<Words>>, <<Words, Span>>} }
    \* a title
    \cup { Answer(TRUE, {"title"}, "ok", 100, 400, BgTransparent, "none", FALSE, <<Words>>, FALSE) }
    \* a shaded box
    \cup { Answer(TRUE, {}, "ok", 40, 200, BgShade, "none", FALSE, <<>>, FALSE) }
    \* any other element
    \cup { Answer(TRUE, {}, "ok", 40, 200, bg, "none", FALSE, nodes, FALSE) :
             bg \in {BgTransparent, BgTint, BgWhite}, nodes \in ChildNodeLists }
    \* words and an inline element
    \cup { Answer(TRUE, {}, "ok", 40, 200, bg, "none", FALSE, <<Words, Span>>, FALSE) :
             bg \in {BgTransparent, BgTint} }
    \* a bare wrapper whose child element is written on a line of its own
    \cup { Answer(TRUE, {}, "ok", 40, 200, BgTransparent, "none", FALSE, <<Blank, Div, Blank>>, FALSE) }
    \* the script that reads the text fails
    \cup { Answer(TRUE, {}, "ok", 40, 200, BgTransparent, "none", TRUE, nodes, FALSE) :
             nodes \in {<<>>, <<Div>>, <<Div, Div>>} }
    \* the child elements cannot be listed
    \cup { Answer(TRUE, {}, "ok", 40, 200, bg, "none", tr, <<Words>>, TRUE) :
             bg \in {BgTransparent, BgTint, BgWhite}, tr \in BOOLEAN }

----------------------------------------------------------------------------
(* parse_element_recursively *)

\* the raster path without the element index
RasterPath_per_slide(slide_index, element_index, suffix) == <<slide_index, 0, suffix>>

\* line 387 / 437: os.path.join(temp_dir, f"slide_{s}_element_{i}_<kind>.png")
RasterPath(slide_index, element_index, suffix) == <<slide_index, element_index, suffix>>

\* line 518: any(cls in ICON_CLASSES for cls in data.classes)
IsIcon(classes) == classes \cap ICON_CLASSES # {}

\* line 523: 'code-block' in data.classes
IsCodeBlock(classes) == "code-block" \in classes

\* line 569: bg_color[3] > 0 and bg_color != parent_bg_color
HasBackground(bg_color, parent_bg_color) ==
    bg_color[4] > 0 /\ bg_color # parent_bg_color

\* lines 564-573: has_background of an element, False when parse_color raises
HasBackgroundOrFalse(c, parent_bg_color) ==
    IF c.exc # "none" THEN FALSE ELSE HasBackground(c.rgba, parent_bg_color)

has_background_of(geom, parent_bg_color) ==
    HasBackgroundOrFalse(parse_color(geom.background_color), parent_bg_color)

\* the element's own colour is handed on, whatever has_background is
current_bg_for_children_own(data, parent_bg_color) ==
    parse_color(data.geom.background_color).rgba

\* the colour received from the caller is forgotten
current_bg_for_children_forgets(data, parent_bg_color) ==
    IF data.has_background
    THEN parse_color(data.geom.background_color).rgba
    ELSE None

\* line 577: the colour handed to the children
current_bg_for_children(data, parent_bg_color) ==
    IF data.has_background
    THEN parse_color(data.geom.background_color).rgba
    ELSE parent_bg_color

\* line 589: nothing useful in the element
NothingUseful(data) ==
    data.text = None /\ data.icon_path = None /\ ~data.has_background /\ data.children = <<>>

\* lines 588-592: the value returned after the children were parsed
\* (<<>> for None, <<data>> for data)
ReturnAfterChildren(data) == IF NothingUseful(data) THEN <<>> ELSE <<data>>

\* lines 517-525: the value returned for an icon or a code block
ReturnRaster(data) == <<data>>

\* outcomes of the part of parse_element_recursively that runs before the
\* first child is parsed
Returns(visible, data, result) ==
    [kind |-> "return", visible |-> visible, data |-> data, result |-> result,
     bg |-> None, nchildren |-> 0]
Recurses(data, bg, n) ==
    [kind |-> "recurse", visible |-> TRUE, data |-> data, result |-> <<>>,
     bg |-> bg, nchildren |-> n]
Raises(data) ==
    [kind |-> "raise", visible |-> TRUE, data |-> data, result |-> <<>>,
     bg |-> None, nchildren |-> 0]

\* lines 527-573: the direct text (None when empty or when reading it
\* fails) and has_background
WithTextAndBackground(a, data0, parent_bg_color) ==
    [data0 EXCEPT !.text = IF a.text_raises \/ a.text = <<>> THEN None ELSE a.text,
                  !.has_background = has_background_of(data0.geom, parent_bg_color)]

\* lines 575-592: the child elements are listed outside any try
ParseChildren(a, data, parent_bg_color) ==
    IF a.children = -1 THEN Raises(data)
    ELSE IF a.children = 0 THEN Returns(TRUE, data, ReturnAfterChildren(data))
    ELSE Recurses(data, current_bg_for_children(data, parent_bg_color), a.children)

\* lines 527-586 up to the loop over the children
ParseGeneric(a, data0, parent_bg_color) ==
    ParseChildren(a, WithTextAndBackground(a, data0, parent_bg_color), parent_bg_color)

ReturnsRaster(data) == Returns(TRUE, data, ReturnRaster(data))

\* an icon that is captured and then parsed like any other element
ParseIcon_falls_through(a, data0, slide_index) ==
    ParseGeneric(a, [data0 EXCEPT !.icon_path = RasterPath(slide_index, data0.index, "icon")], None)

\* lines 517-520 and take_icon_screenshot (320-410); line 374 is outside any try
ParseIcon(a, data0, slide_index) ==
    IF a.capture = "raise" THEN Raises(data0)
    ELSE ReturnsRaster([data0 EXCEPT !.icon_path =
                           IF a.capture = "path"
                           THEN RasterPath(slide_index, data0.index, "icon") ELSE None])

\* lines 522-525 and take_code_block_screenshot (412-463): every failure is
\* caught there and gives None
ParseCodeBlock(a, data0, slide_index) ==
    ReturnsRaster([data0 EXCEPT !.icon_path =
                      IF a.capture = "path"
                      THEN RasterPath(slide_index, data0.index, "code_block") ELSE None])

\* the page as the captures see it: the inline transform of the slide
\* container and the number of temporary clone containers in the document
CleanPage == [transform |-> "", temp_containers |-> 0]

\* lines 340 and 432: the slide container is moved out of the way
Moved(pg) == [pg EXCEPT !.transform = "translateY(1000px)"]

\* lines 380, 408 and 461: the transform is cleared
Restored(pg) == [pg EXCEPT !.transform = ""]

\* lines 357-370: the clone script appends its container to the body
WithClone(pg) == [pg EXCEPT !.temp_containers = @ + 1]

\* line 404: the container is removed
WithoutClone(pg) == [pg EXCEPT !.temp_containers = @ - 1]

\* lines 337-410: the page after take_icon_screenshot. When the clone script
\* raises at line 374 nothing after it runs; when it returns null the
\* transform is cleared at line 380 (a capture without a path; a screenshot
\* that fails after the clone was made leaves the same page); otherwise the
\* finally clause removes the container and clears the transform
PageAfterIconCapture(pg, capture) ==
    IF capture = "raise" THEN Moved(pg)
    ELSE IF capture = "none" THEN Restored(Moved(pg))
    ELSE Restored(WithoutClone(WithClone(Moved(pg))))

\* lines 429-463: the page after take_code_block_screenshot
PageAfterCodeBlockCapture(pg, capture) == Restored(Moved(pg))

\* the page after one call of parse_element_recursively, up to its return or
\* its first recursive call: only a laid-out icon or code block is captured
PageAfterParse(a, pg) ==
    IF ~a.readable \/ a.size # "ok" THEN pg
    ELSE IF IsIcon(a.classes)
         THEN PageAfterIconCapture(pg, a.capture)
    ELSE IF IsCodeBlock(a.classes) THEN PageAfterCodeBlockCapture(pg, a.capture)
    ELSE pg

\* an element without a box is parsed like any other
parse_element_visits_hidden(a, slide_index, index, parent_bg_color) ==
    IF ~a.readable THEN Returns(FALSE, ElementData(index, {}, NoGeom), <<>>)
    ELSE IF a.size = "raise" THEN Returns(FALSE, ElementData(index, a.classes, NoGeom), <<>>)
    ELSE LET geom  == [x |-> a.x, y |-> 60 * index, width |-> a.width, height |-> 50,
                       background_color |-> a.background_color]
             data0 == ElementData(index, a.classes, geom)
         IN  IF IsIcon(a.classes) THEN ParseIcon(a, data0, slide_index)
             ELSE IF IsCodeBlock(a.classes) THEN ParseCodeBlock(a, data0, slide_index)
             ELSE ParseGeneric(a, data0, parent_bg_color)

\* lines 484-586: one call, up to its return or its first recursive call
parse_element(a, slide_index, index, parent_bg_color) ==
    IF ~a.readable THEN Returns(FALSE, ElementData(index, {}, NoGeom), <<>>)
    ELSE IF a.size # "ok" THEN Returns(FALSE, ElementData(index, a.classes, NoGeom), <<>>)
    ELSE LET geom  == [x |-> a.x, y |-> 60 * index, width |-> a.width, height |-> 50,
                       background_color |-> a.background_color]
             data0 == ElementData(index, a.classes, geom)
         IN  IF IsIcon(a.classes) THEN ParseIcon(a, data0, slide_index)
             ELSE IF IsCodeBlock(a.classes) THEN ParseCodeBlock(a, data0, slide_index)
             ELSE ParseGeneric(a, data0, parent_bg_color)

----------------------------------------------------------------------------
(* add_elements_to_slide *)

\* line 758-773
px_to_emu(px) == px * 9525

Shape(kind, data, width_px) ==
    [shape |-> kind, node |-> data.index,
     x |-> px_to_emu(data.geom.x), y |-> px_to_emu(data.geom.y),
     width |-> px_to_emu(width_px), height |-> px_to_emu(data.geom.height)]

\* Python floats are IEEE-754 doubles: 53 significant bits, every operation
\* rounded to the nearest double, ties to even. A double in [0, 256) that is a
\* multiple of 2^-64 is held as the natural number value * 2^64, written as
\* four limbs of 20 bits, least significant first.
PowersOf2 ==
    <<1, 2, 4, 8, 16, 32, 64, 128, 256, 512, 1024, 2048, 4096, 8192, 16384, 32768,
      65536, 131072, 262144, 524288, 1048576>>

\* 2^n for n in 0..20
Pow2(n) == PowersOf2[n + 1]

LimbBase == Pow2(20)

Limb(n, i) == IF i \in DOMAIN n THEN n[i] ELSE 0

RECURSIVE Carry(_, _)
\* the limbs brought back into 0 .. LimbBase-1, carries (or borrows) moved up
Carry(raw, c) ==
    IF raw = <<>> THEN <<>>
    ELSE <<(Head(raw) + c) % LimbBase>> \o Carry(Tail(raw), (Head(raw) + c) \div LimbBase)

BigOfInt(k) == Carry(<<k, 0, 0, 0>>, 0)
BigAdd(a, b) == Carry(<<a[1] + b[1], a[2] + b[2], a[3] + b[3], a[4] + b[4]>>, 0)
BigSub(a, b) == Carry(<<a[1] - b[1], a[2] - b[2], a[3] - b[3], a[4] - b[4]>>, 0)
BigMulSmall(n, k) == Carry(<<n[1] * k, n[2] * k, n[3] * k, n[4] * k>>, 0)

ShiftRightLimb(n, k, i) ==
    (Limb(n, i + (k \div 20)) \div Pow2(k % 20))
    + (Limb(n, i + (k \div 20) + 1) % Pow2(k % 20)) * Pow2(20 - (k % 20))

ShiftRight(n, k) ==
    <<ShiftRightLimb(n, k, 1), ShiftRightLimb(n, k, 2),
      ShiftRightLimb(n, k, 3), ShiftRightLimb(n, k, 4)>>

ShiftLeftLimb(n, k, i) ==
    (Limb(n, i - (k \div 20)) % Pow2(20 - (k % 20))) * Pow2(k % 20)
    + (Limb(n, i - (k \div 20) - 1) \div Pow2(20 - (k % 20)))

ShiftLeft(n, k) ==
    <<ShiftLeftLimb(n, k, 1), ShiftLeftLimb(n, k, 2),
      ShiftLeftLimb(n, k, 3), ShiftLeftLimb(n, k, 4)>>

Bit(n, j) == (Limb(n, (j \div 20) + 1) \div Pow2(j % 20)) % 2

RECURSIVE TopBit(_, _)
\* the highest set bit at or below position j, -1 when there is none
TopBit(n, j) ==
    IF j < 0 THEN 0 - 1 ELSE IF Bit(n, j) = 1 THEN j ELSE TopBit(n, j - 1)

\* number of significant bits
BitLength(n) == 1 + TopBit(n, 79)

RECURSIVE RemFrom(_, _, _)
\* the remainder of the limbs from i upwards when divided by d
RemFrom(n, i, d) ==
    IF i > 4 THEN 0 ELSE (RemFrom(n, i + 1, d) * LimbBase + n[i]) % d

BigDivLimb(n, d, i) == (RemFrom(n, i + 1, d) * LimbBase + n[i]) \div d

BigDivSmall(n, d) ==
    <<BigDivLimb(n, d, 1), BigDivLimb(n, d, 2), BigDivLimb(n, d, 3), BigDivLimb(n, d, 4)>>

\* round to nearest, ties to even, dropping the k low bits of n; sticky says
\* that the exact value lies above n
RoundBits(n, k, sticky) ==
    IF k <= 0 THEN n
    ELSE IF Bit(n, k - 1) = 1
            /\ (sticky \/ Bit(n, k) = 1 \/ \E j \in 0..(k - 2) : Bit(n, j) = 1)
         THEN ShiftLeft(BigAdd(ShiftRight(n, k), BigOfInt(1)), k)
         ELSE ShiftLeft(ShiftRight(n, k), k)

\* the nearest double
RoundToDouble(n, sticky) == RoundBits(n, BitLength(n) - 53, sticky)

\* float("0.05"): the double nearest to milli / 1000, for 0 < milli < 1000
DoubleOfMilli(milli) ==
    RoundToDouble(BigDivSmall(ShiftLeft(BigOfInt(milli), 64), 1000),
                  RemFrom(ShiftLeft(BigOfInt(milli), 64), 1, 1000) # 0)

FloatMulInt(k, x) == RoundToDouble(BigMulSmall(x, k), FALSE)
FloatAdd(x, y) == RoundToDouble(BigAdd(x, y), FALSE)
OneMinus(x) == RoundToDouble(BigSub(ShiftLeft(BigOfInt(1), 64), x), FALSE)

\* int(x) of a double x >= 0
IntOfDouble(x) == ShiftRight(x, 64)[1]

\* 255 * (1 - alpha)
WhitePart(alpha) == FloatMulInt(255, OneMinus(alpha))

\* line 986: int(bg_color[0] * alpha + 255 * (1 - alpha))
BlendChannel(fg, alpha, white) == IntOfDouble(FloatAdd(FloatMulInt(fg, alpha), white))

\* lines 986-988
BlendedColor(rgba, alpha) ==
    <<BlendChannel(rgba[1], alpha, WhitePart(alpha)),
      BlendChannel(rgba[2], alpha, WhitePart(alpha)),
      BlendChannel(rgba[3], alpha, WhitePart(alpha))>>

\* lines 984-996: the colour given to RGBColor
FillColor(rgba) ==
    IF rgba[4] < 1000 THEN BlendedColor(rgba, DoubleOfMilli(rgba[4]))
    ELSE <<rgba[1], rgba[2], rgba[3]>>

\* the colours an element of the page can have, each with its fill colour
PageFillColors ==
    { <<parse_color(a.background_color).rgba, FillColor(parse_color(a.background_color).rgba)>> :
        a \in Answers }

\* FillColor, looked up for a colour of the page
FillColorOfPage(rgba) == (CHOOSE p \in PageFillColors : p[1] = rgba)[2]

\* lines 981-996: the shape with its solid fill
Filled(shape, rgb) ==
    [f \in DOMAIN shape \cup {"fill"} |-> IF f = "fill" THEN rgb ELSE shape[f]]

\* lines 925-1020: no shape for a transparent colour
BackgroundShapeOf(data, bg_color) ==
    IF bg_color.exc # "none" \/ bg_color.rgba[4] <= 0 THEN <<>>
    ELSE IF px_to_emu(data.geom.width) <= 0 \/ px_to_emu(data.geom.height) <= 0 THEN <<>>
    ELSE <<Filled(Shape("background", data, data.geom.width), FillColorOfPage(bg_color.rgba))>>

add_background_shape(data) ==
    BackgroundShapeOf(data, parse_color(data.geom.background_color))

\* lines 873-902: the captured file exists
add_image(data) == <<Shape("picture", data, data.geom.width)>>

\* line 115
SLIDE_WIDTH_PX == 1280

\* a title fills the slide up to a right margin of 40, any other text grows
\* by a quarter
TextboxWidth_heuristic(data) ==
    IF "title" \in data.classes
    THEN Max(data.geom.width, SLIDE_WIDTH_PX - data.geom.x - 40)
    ELSE (data.geom.width * 5) \div 4

\* line 1041: geom['width'] += 30, on a copy of geom
TextboxWidth(data) == data.geom.width + 30

\* the width is added into the element's own geometry
GeomAfterTextbox_in_place(data) == [data.geom EXCEPT !.width = @ + 30]

\* lines 1036-1041: data.geom after add_textbox; geom is a copy of it, and
\* the width is added to the copy
GeomAfterTextbox(data) == data.geom

\* lines 1022-1087
add_textbox(data) ==
    IF data.text = None THEN <<>> ELSE <<Shape("textbox", data, TextboxWidth(data))>>

RECURSIVE add_elements_to_slide(_)

\* the children first, then the content, then the background
ShapesOfElement_children_first(data) ==
    (IF data.children # <<>> THEN add_elements_to_slide(data.children) ELSE <<>>)
    \o (IF data.icon_path # None THEN add_image(data)
        ELSE IF data.text # None THEN add_textbox(data)
        ELSE <<>>)
    \o (IF data.has_background THEN add_background_shape(data) ELSE <<>>)

\* lines 1105-1116: the shapes of one element and its children
ShapesOfElement(data) ==
    (IF data.has_background THEN add_background_shape(data) ELSE <<>>)
    \o (IF data.icon_path # None THEN add_image(data)
        ELSE IF data.text # None THEN add_textbox(data)
        ELSE <<>>)
    \o (IF data.children # <<>> THEN add_elements_to_slide(data.children) ELSE <<>>)

\* line 1103: for data in elements
add_elements_to_slide(elems) ==
    IF elems = <<>> THEN <<>>
    ELSE ShapesOfElement(Head(elems)) \o add_elements_to_slide(Tail(elems))

RECURSIVE ElementsAfterRendering(_)

\* lines 1103-1116: the element as the rendering functions leave it;
\* add_background_shape and add_image only read geom
ElementAfterRendering(data) ==
    [data EXCEPT
        !.geom = IF data.icon_path = None /\ data.text # None
                 THEN GeomAfterTextbox(data) ELSE data.geom,
        !.children = IF data.children # <<>>
                     THEN ElementsAfterRendering(data.children) ELSE <<>>]

\* the elements of the slide after add_elements_to_slide
ElementsAfterRendering(elems) ==
    IF elems = <<>> THEN <<>>
    ELSE <<ElementAfterRendering(Head(elems))>> \o ElementsAfterRendering(Tail(elems))

----------------------------------------------------------------------------
(* Extraction and rendering of one slide as actions *)

\* depth is the number of calls that were active around the call
NoCall == [index |-> 0, depth |-> 0, visible |-> FALSE, kept |-> FALSE,
           data |-> ElementData(0, {}, NoGeom), answer_children |-> 0,
           child_nodes |-> <<>>]

\* an active call in its loop: child_elements holds listed elements, of which
\* remaining are still to be parsed
Frame(data, bg, n, child_nodes) ==
    [data |-> data, bg_for_children |-> bg, listed |-> n, remaining |-> n,
     child_nodes |-> child_nodes]

Top == stack[Len(stack)]

\* parent_bg_color of the next call: None from extract_data_from_html (line
\* 727), current_bg_for_children from a parent call (line 583)
ParentBg == IF stack = <<>> THEN None ELSE Top.bg_for_children

\* the loop that runs now has another child element
HasNextChild ==
    IF stack = <<>> THEN top_remaining > 0 ELSE Top.remaining > 0

\* elements the running loops still have to visit
RECURSIVE SumRemaining(_)
SumRemaining(st) == IF st = <<>> THEN 0 ELSE Head(st).remaining + SumRemaining(Tail(st))

Pending == top_remaining + SumRemaining(stack)

\* the stack and the top-level count once the running loop took its next child
StackAfterTake ==
    IF stack = <<>> THEN stack
    ELSE [stack EXCEPT ![Len(stack)].remaining = @ - 1]

TopAfterTake == IF stack = <<>> THEN top_remaining - 1 ELSE top_remaining

\* lines 585-586 / 730-731: a returned value is appended where the call came from
StackAfterReturn(st, result) ==
    IF st = <<>> THEN st
    ELSE [st EXCEPT ![Len(st)].data.children = @ \o result]

ElementsAfterReturn(st, result) ==
    IF st = <<>> THEN elements \o result ELSE elements

\* the answers within the bound on the elements of a slide
AnswersNow ==
    { a \in Answers : element_counter + Pending + Max(a.children, 0) <= MaxElements }

InitExtract ==
    /\ pc = "start"
    /\ top_remaining = 0
    /\ stack = <<>>
    /\ element_counter = 0
    /\ elements = <<>>
    /\ last = NoCall
    /\ skipped = 0
    /\ shapes = <<>>
    /\ page = CleanPage

\* lines 679-724: a slide begins; the container reports its child elements
StartSlide ==
    /\ pc = "start"
    /\ \E n \in ChildCounts : top_remaining' = n
    /\ pc' = "extract"
    /\ UNCHANGED <<stack, element_counter, elements, last, skipped, shapes, page>>
    /\ UNCHANGED <<style_vars, batch_vars, file_vars, dom_vars>>

\* the call with answer a and outcome o returns to its caller
Returned(a, o) ==
    /\ o.kind = "return"
    /\ stack' = StackAfterReturn(StackAfterTake, o.result)
    /\ elements' = ElementsAfterReturn(stack, o.result)
    /\ last' = [index |-> element_counter + 1, depth |-> Len(stack),
                visible |-> o.visible, kept |-> o.result # <<>>, data |-> o.data,
                answer_children |-> a.children, child_nodes |-> a.child_nodes]

\* the call with outcome o starts the loop over its children
Recursed(a, o) ==
    /\ o.kind = "recurse"
    /\ stack' = Append(StackAfterTake, Frame(o.data, o.bg, o.nchildren, a.child_nodes))

\* a call of parse_element_recursively that returns without parsing children
ParseElementReturn ==
    /\ pc = "extract" /\ HasNextChild
    /\ \E a \in AnswersNow :
         /\ Returned(a, parse_element(a, 0, element_counter + 1, ParentBg))
         /\ page' = PageAfterParse(a, page)
    /\ top_remaining' = TopAfterTake
    /\ element_counter' = element_counter + 1
    /\ UNCHANGED <<pc, skipped, shapes>>
    /\ UNCHANGED <<style_vars, batch_vars, file_vars, dom_vars>>

\* a call that reaches the loop over its child elements (lines 576-579)
ParseElementRecurse ==
    /\ pc = "extract" /\ HasNextChild
    /\ \E a \in AnswersNow :
         /\ Recursed(a, parse_element(a, 0, element_counter + 1, ParentBg))
         /\ page' = PageAfterParse(a, page)
    /\ top_remaining' = TopAfterTake
    /\ element_counter' = element_counter + 1
    /\ UNCHANGED <<pc, elements, last, skipped, shapes>>
    /\ UNCHANGED <<style_vars, batch_vars, file_vars, dom_vars>>

\* a call that raises: the exception passes every active call and is caught
\* at line 733; the slide keeps the elements appended so far (line 736)
ParseElementRaise ==
    /\ pc = "extract" /\ HasNextChild
    /\ \E a \in AnswersNow :
         /\ parse_element(a, 0, element_counter + 1, ParentBg).kind = "raise"
         /\ page' = PageAfterParse(a, page)
    /\ skipped' = Pending - 1
    /\ stack' = <<>>
    /\ top_remaining' = 0
    /\ element_counter' = element_counter + 1
    /\ pc' = "extracted"
    /\ UNCHANGED <<elements, last, shapes>>
    /\ UNCHANGED <<style_vars, batch_vars, file_vars, dom_vars>>

\* lines 588-592: the loop over the children ended
ReturnFromChildren ==
    /\ pc = "extract" /\ stack # <<>> /\ Top.remaining = 0
    /\ LET result == ReturnAfterChildren(Top.data)
           below  == SubSeq(stack, 1, Len(stack) - 1)
       IN  /\ stack' = StackAfterReturn(below, result)
           /\ elements' = ElementsAfterReturn(below, result)
           /\ last' = [index |-> Top.data.index, depth |-> Len(stack) - 1,
                       visible |-> TRUE, kept |-> result # <<>>, data |-> Top.data,
                       answer_children |-> Top.listed, child_nodes |-> Top.child_nodes]
    /\ UNCHANGED <<pc, top_remaining, element_counter, skipped, shapes, page>>
    /\ UNCHANGED <<style_vars, batch_vars, file_vars, dom_vars>>

\* line 736: every container child was parsed
FinishSlide ==
    /\ pc = "extract" /\ stack = <<>> /\ top_remaining = 0
    /\ pc' = "extracted"
    /\ UNCHANGED <<top_remaining, stack, element_counter, elements, last, skipped, shapes, page>>
    /\ UNCHANGED <<style_vars, batch_vars, file_vars, dom_vars>>

\* lines 1157-1159: the slide is rendered
RenderSlide ==
    /\ pc = "extracted"
    /\ shapes' = add_elements_to_slide(elements)
    /\ elements' = ElementsAfterRendering(elements)
    /\ pc' = "rendered"
    /\ UNCHANGED <<top_remaining, stack, element_counter, last, skipped, page>>
    /\ UNCHANGED <<style_vars, batch_vars, file_vars, dom_vars>>

Next ==
    \/ StartSlide
    \/ ParseElementReturn
    \/ ParseElementRecurse
    \/ ParseElementRaise
    \/ ReturnFromChildren
    \/ FinishSlide
    \/ RenderSlide

----------------------------------------------------------------------------
(* main and process_files_worker: a batch of files *)

\* names of files in the input directory
FileNames == { <<"f","i","l","e","_","2",".","h","t","m","l">>, <<"f","i","l","e","_","1","0",".","h","t","m","l">>, <<"f","i","l","e"," ","2",".","h","t","m","l">>, <<"n","o","t","e","s",".","h","t","m","l">> }

Letters == {"a", "b", "c", "d", "e", "f", "g", "h", "i", "j", "k", "l", "m", "n", "o", "p", "q", "r", "s", "t", "u", "v", "w", "x", "y", "z", "A", "B", "C", "D", "E", "F", "G", "H", "I", "J", "K", "L", "M", "N", "O", "P", "Q", "R", "S", "T", "U", "V", "W", "X", "Y", "Z"}

\* line 1227: the 0-based starts of a match of r'file_(\d+)\.html'
NumberMatches(filename) ==
    { i \in 0..Len(filename) :
        /\ StartsWith(Slice(filename, i, Len(filename)), <<"f","i","l","e","_">>)
        /\ RunEnd(filename, i + 5, Digits) > i + 5
        /\ StartsWith(Slice(filename, RunEnd(filename, i + 5, Digits), Len(filename)), <<".","h","t","m","l">>) }

\* lines 1226-1228: the number in the file name, 0 when there is none
extract_number(filename) ==
    IF NumberMatches(filename) = {} THEN 0
    ELSE DigitsToInt(Slice(filename, Least(NumberMatches(filename)) + 5,
                           RunEnd(filename, Least(NumberMatches(filename)) + 5, Digits)), 0)

\* f put behind the files whose number is not larger
InsertByNumber(sorted, f) ==
    SubSeq(sorted, 1, Cardinality({ i \in 1..Len(sorted) : extract_number(sorted[i]) <= extract_number(f) }))
    \o <<f>>
    \o SubSeq(sorted, Cardinality({ i \in 1..Len(sorted) : extract_number(sorted[i]) <= extract_number(f) }) + 1,
              Len(sorted))

RECURSIVE SortByNumber(_)
\* line 1230: html_files.sort(key=extract_number), a stable sort
SortByNumber(listing) ==
    IF listing = <<>> THEN <<>>
    ELSE InsertByNumber(SortByNumber(SubSeq(listing, 1, Len(listing) - 1)), listing[Len(listing)])

\* what os.listdir may return: the names of up to MaxFiles files, in any order
Listings ==
    { l \in SeqsUpTo(FileNames, MaxFiles) : \A i, j \in 1..Len(l) : i # j => l[i] # l[j] }

\* the files are dealt out in blocks of consecutive files
Distribute_blocks(chunks, files, i) ==
    [w \in 1..Len(chunks) |->
        SubSeq(files, ((w - 1) * Len(files)) \div Len(chunks) + 1, (w * Len(files)) \div Len(chunks))]

RECURSIVE Distribute(_, _, _)
\* lines 1269-1270: file_chunks[i % num_workers].append(html_file), from the
\* file at 0-based position i on
Distribute(chunks, files, i) ==
    IF i >= Len(files) THEN chunks
    ELSE Distribute([chunks EXCEPT ![(i % Len(chunks)) + 1] = Append(@, files[i + 1])], files, i + 1)

\* line 1145: re.sub(r'[^a-zA-Z0-9.-]', '_', html_file)
Sanitized(html_file) ==
    [i \in 1..Len(html_file) |->
        IF html_file[i] \in Letters \cup Digits \cup {".", "-"} THEN html_file[i] ELSE "_"]

\* line 1145: thread_temp_dir
ThreadTempDir(html_file) == <<"temp", Sanitized(html_file)>>

\* line 387: a raster file of the page, in thread_temp_dir
RasterFile(html_file) == <<"temp", Sanitized(html_file), RasterPath(0, 1, "icon")>>

\* line 1162: os.path.splitext(html_file)[0]
BaseName(html_file) ==
    IF \E i \in 2..Len(html_file) : html_file[i] = "."
    THEN SubSeq(html_file, 1, (CHOOSE i \in 2..Len(html_file) :
                                  html_file[i] = "." /\ \A j \in (i + 1)..Len(html_file) : html_file[j] # ".") - 1)
    ELSE html_file

\* line 1163: output_path
OutputPath(html_file) == <<"out", BaseName(html_file) \o <<".","p","p","t","x">>>>

\* a call of process_files_worker before init_driver: driver is None (0);
\* opened and closed count the sessions init_driver returned and the calls of
\* driver.quit(), documents the presentations created
NewWorker ==
    [pc |-> "start", pos |-> 1, driver |-> 0, attempted |-> <<>>, failed |-> {},
     opened |-> 0, closed |-> 0, documents |-> 0]

\* the file the worker is at
CurrentFile(w) == file_chunks[w][workers[w].pos]

Writes(w, paths) == { [worker |-> w, file |-> CurrentFile(w), path |-> p] : p \in paths }

IdleBatch ==
    /\ main_pc = "idle"
    /\ requested = 0
    /\ html_files = <<>>
    /\ file_chunks = <<>>
    /\ workers = <<>>
    /\ written = {}

\* main has listed and sorted the input files
InitBatch ==
    /\ main_pc = "start"
    /\ requested \in (0 - 1)..MaxWorkers
    /\ html_files \in { SortByNumber(l) : l \in Listings }
    /\ file_chunks = <<>>
    /\ workers = <<>>
    /\ written = {}

\* line 1262
NumWorkers == Min(requested, Len(html_files))

\* lines 1263-1265: nothing to do
NoWorkers ==
    /\ main_pc = "start"
    /\ NumWorkers = 0
    /\ main_pc' = "no_files"
    /\ UNCHANGED <<requested, html_files, file_chunks, workers, written>>
    /\ UNCHANGED <<style_vars, extract_vars, file_vars, dom_vars>>

\* lines 1268-1276 with a negative number of workers: file_chunks is empty
\* and file_chunks[0] raises IndexError, or ThreadPoolExecutor raises ValueError
DistributeRaises ==
    /\ main_pc = "start"
    /\ NumWorkers < 0
    /\ main_pc' = "raised"
    /\ UNCHANGED <<requested, html_files, file_chunks, workers, written>>
    /\ UNCHANGED <<style_vars, extract_vars, file_vars, dom_vars>>

\* lines 1268-1276: the chunks are made and every worker is started
StartWorkers ==
    /\ main_pc = "start"
    /\ NumWorkers > 0
    /\ file_chunks' = Distribute([w \in 1..NumWorkers |-> <<>>], html_files, 0)
    /\ workers' = [w \in 1..NumWorkers |-> NewWorker]
    /\ main_pc' = "running"
    /\ UNCHANGED <<requested, html_files, written>>
    /\ UNCHANGED <<style_vars, extract_vars, file_vars, dom_vars>>

\* line 1139: driver = init_driver()
OpenSession(wk, w) ==
    [wk EXCEPT !.pc = "loop",
               !.driver = w,
               !.opened = @ + 1]

InitDriver(w) ==
    /\ workers[w].pc = "start"
    /\ workers' = [workers EXCEPT ![w] = OpenSession(workers[w], w)]
    /\ UNCHANGED <<main_pc, requested, html_files, file_chunks, written>>
    /\ UNCHANGED <<style_vars, extract_vars, file_vars, dom_vars>>

\* the worker goes on to its files without a driver
AfterInitFailure_goes_on(wk) == [wk EXCEPT !.pc = "loop"]

\* lines 1170-1176: init_driver raised: the exception is logged and the
\* worker ends
AfterInitFailure(wk) == [wk EXCEPT !.pc = "finished"]

InitDriverRaises(w) ==
    /\ workers[w].pc = "start"
    /\ workers' = [workers EXCEPT ![w] = AfterInitFailure(workers[w])]
    /\ UNCHANGED <<main_pc, requested, html_files, file_chunks, written>>
    /\ UNCHANGED <<style_vars, extract_vars, file_vars, dom_vars>>

\* line 1141: the next file of the chunk is taken up
Attempt(wk, html_file) ==
    [wk EXCEPT !.attempted = Append(@, [file |-> html_file, driver |-> wk.driver, prs |-> 0])]

\* line 1150: prs = create_presentation(), a new document for the file the
\* worker is at
WithPresentation(wk) ==
    [wk EXCEPT !.documents = wk.documents + 1,
               !.attempted[Len(wk.attempted)].prs = wk.documents + 1]

\* the failure of a file ends the worker
AfterFileFailure_stops(wk, html_file) ==
    [wk EXCEPT !.pc = "finished", !.failed = @ \cup {html_file}]

\* lines 1167-1169: the failure of a file is logged and the loop goes on
AfterFileFailure(wk, html_file) ==
    [wk EXCEPT !.pc = "loop",
               !.pos = @ + 1,
               !.failed = @ \cup {html_file}]

\* lines 1141-1154: the temporary directory is made and the page extracted
ExtractFile(w) ==
    /\ workers[w].pc = "loop"
    /\ workers[w].pos <= Len(file_chunks[w])
    /\ workers' = [workers EXCEPT ![w] =
                      [WithPresentation(Attempt(workers[w], CurrentFile(w))) EXCEPT !.pc = "render"]]
    /\ written' = written \cup Writes(w, {ThreadTempDir(CurrentFile(w)), RasterFile(CurrentFile(w))})
    /\ UNCHANGED <<main_pc, requested, html_files, file_chunks>>
    /\ UNCHANGED <<style_vars, extract_vars, file_vars, dom_vars>>

\* lines 1141-1154 raise: os.makedirs fails before anything is written, or
\* the extraction fails after the directory and a raster file were written
ExtractFileRaises(w) ==
    /\ workers[w].pc = "loop"
    /\ workers[w].pos <= Len(file_chunks[w])
    /\ \E paths \in {{}, {ThreadTempDir(CurrentFile(w)), RasterFile(CurrentFile(w))}} :
          /\ written' = written \cup Writes(w, paths)
          /\ workers' = [workers EXCEPT ![w] =
                            AfterFileFailure(IF paths = {}
                                             THEN Attempt(workers[w], CurrentFile(w))
                                             ELSE WithPresentation(Attempt(workers[w], CurrentFile(w))),
                                             CurrentFile(w))]
    /\ UNCHANGED <<main_pc, requested, html_files, file_chunks>>
    /\ UNCHANGED <<style_vars, extract_vars, file_vars, dom_vars>>

\* lines 1157-1165: the slides are rendered and the presentation is saved
SaveFile(w) ==
    /\ workers[w].pc = "render"
    /\ workers' = [workers EXCEPT ![w].pc = "loop", ![w].pos = @ + 1]
    /\ written' = written \cup Writes(w, {OutputPath(CurrentFile(w))})
    /\ UNCHANGED <<main_pc, requested, html_files, file_chunks>>
    /\ UNCHANGED <<style_vars, extract_vars, file_vars, dom_vars>>

\* lines 1157-1165 raise: rendering or prs.save fails
SaveFileRaises(w) ==
    /\ workers[w].pc = "render"
    /\ workers' = [workers EXCEPT ![w] = AfterFileFailure(workers[w], CurrentFile(w))]
    /\ UNCHANGED <<main_pc, requested, html_files, file_chunks, written>>
    /\ UNCHANGED <<style_vars, extract_vars, file_vars, dom_vars>>

\* the worker ends and leaves its session open
CloseSession_leaks(wk) == [wk EXCEPT !.pc = "finished"]

\* lines 1173-1176: if driver: driver.quit()
CloseSession(wk) ==
    IF wk.driver = 0 THEN [wk EXCEPT !.pc = "finished"]
    ELSE [wk EXCEPT !.pc = "finished",
                    !.closed = @ + 1]

\* lines 1140 and 1173-1176: the chunk is done
QuitDriver(w) ==
    /\ workers[w].pc = "loop"
    /\ workers[w].pos > Len(file_chunks[w])
    /\ workers' = [workers EXCEPT ![w] = CloseSession(workers[w])]
    /\ UNCHANGED <<main_pc, requested, html_files, file_chunks, written>>
    /\ UNCHANGED <<style_vars, extract_vars, file_vars, dom_vars>>

\* lines 1275-1279: the with block ends when every worker has ended
MainCompletes ==
    /\ main_pc = "running"
    /\ \A w \in DOMAIN workers : workers[w].pc = "finished"
    /\ main_pc' = "completed"
    /\ UNCHANGED <<requested, html_files, file_chunks, workers, written>>
    /\ UNCHANGED <<style_vars, extract_vars, file_vars, dom_vars>>

NextBatch ==
    \/ NoWorkers
    \/ DistributeRaises
    \/ StartWorkers
    \/ \E w \in DOMAIN workers : InitDriver(w)
    \/ \E w \in DOMAIN workers : InitDriverRaises(w)
    \/ \E w \in DOMAIN workers : ExtractFile(w)
    \/ \E w \in DOMAIN workers : ExtractFileRaises(w)
    \/ \E w \in DOMAIN workers : SaveFile(w)
    \/ \E w \in DOMAIN workers : SaveFileRaises(w)
    \/ \E w \in DOMAIN workers : QuitDriver(w)
    \/ MainCompletes

----------------------------------------------------------------------------
(* extract_data_from_html and the rendering loop on the slides of one file *)

\* a gradient as the slide's computed background
SlideGradient == <<"l","i","n","e","a","r","-","g","r","a","d","i","e","n","t","(","r","g","b","(","1","0",","," ","2","0",","," ","3","0",")",","," ","r","g","b","(","2","1","1",","," ","4","7",","," ","4","7",")",")">>

\* what the browser answers for one '.slide' container: whether reading its
\* 'background' fails, its 'background' and 'background-color', and how the
\* parsing of its two elements ends
SlideAnswers ==
    { [background_raises |-> b[1], background |-> b[2], background_color |-> b[3], content |-> c] :
        b \in { <<TRUE, <<"n","o","n","e">>, BgWhite>>, <<FALSE, <<"n","o","n","e">>, <<"t","r","a","n","s","p","a","r","e","n","t">>>>,
                <<FALSE, <<"n","o","n","e">>, BgWhite>>, <<FALSE, SlideGradient, BgTransparent>> },
        c \in { "all", "first_raises", "second_raises" } }

\* lines 687-688: the 'background-color' stands in for no 'background'
BackgroundOrColor(a) ==
    IF a.background = <<>> \/ a.background = <<"n","o","n","e">> THEN a.background_color ELSE a.background

\* lines 690-691
UsableStyle(background_style) ==
    IF background_style # <<>> /\ background_style \notin { <<"n","o","n","e">>, <<"t","r","a","n","s","p","a","r","e","n","t">> }
    THEN background_style ELSE None

\* lines 685-694: slide_data.background_style; None when reading it raises
BackgroundStyleOf(a) ==
    IF a.background_raises THEN None ELSE UsableStyle(BackgroundOrColor(a))

\* lines 696-734: slide_data.elements, the elements appended before an
\* exception ended the parsing of the slide
ElementsOfSlide(i, a) ==
    CASE a.content = "all" -> << [slide |-> i, index |-> 1], [slide |-> i, index |-> 2] >>
      [] a.content = "second_raises" -> << [slide |-> i, index |-> 1] >>
      [] a.content = "first_raises" -> <<>>

\* lines 681-734: the SlideData of the container at index i
SlideDataOf(i, a) ==
    [source |-> i, background_style |-> BackgroundStyleOf(a), elements |-> ElementsOfSlide(i, a)]

\* a slide whose content could not be parsed to the end is left out
AppendSlide_unless_failed(data, i, a) ==
    IF a.content = "all" THEN Append(data, SlideDataOf(i, a)) ELSE data

\* line 736: slides_data.append(slide_data)
AppendSlide(data, i, a) == Append(data, SlideDataOf(i, a))

IdleFile ==
    /\ file_pc = "idle"
    /\ slide_elements = <<>>
    /\ slide_i = 0
    /\ slides_data = <<>>
    /\ prs_slides = <<>>
    /\ browser_log = <<>>

\* extract_data_from_html is called
InitFile ==
    /\ file_pc = "load"
    /\ slide_elements = <<>>
    /\ slide_i = 0
    /\ slides_data = <<>>
    /\ prs_slides = <<>>
    /\ browser_log = <<>>

\* lines 669-670: driver.get and the pause for rendering
LoadPage ==
    /\ file_pc = "load"
    /\ browser_log' = Append(browser_log, "get")
    /\ file_pc' = "wait"
    /\ UNCHANGED <<slide_elements, slide_i, slides_data, prs_slides>>
    /\ UNCHANGED <<style_vars, extract_vars, batch_vars, dom_vars>>

\* the ways WebDriverWait(...).until(...) of lines 612-636 ends without an
\* exception other than TimeoutException
WaitOutcomes == {"ready", "timeout"}

\* a timeout ends the file
PcAfterWait_gives_up(outcome) == IF outcome = "timeout" THEN "failed" ELSE "find"

\* lines 637-648: the TimeoutException is caught and logged;
\* wait_for_material_icons returns in both cases
PcAfterWait(outcome) == "find"

\* line 673: wait_for_material_icons(driver)
WaitForIcons ==
    /\ file_pc = "wait"
    /\ \E outcome \in WaitOutcomes :
          /\ browser_log' = Append(browser_log, outcome)
          /\ file_pc' = PcAfterWait(outcome)
    /\ UNCHANGED <<slide_elements, slide_i, slides_data, prs_slides>>
    /\ UNCHANGED <<style_vars, extract_vars, batch_vars, dom_vars>>

\* lines 612-636: the font script raises something else than a timeout; only
\* TimeoutException is caught at line 646, and the file fails at line 1167
WaitRaises ==
    /\ file_pc = "wait"
    /\ browser_log' = Append(browser_log, "raise")
    /\ file_pc' = "failed"
    /\ UNCHANGED <<slide_elements, slide_i, slides_data, prs_slides>>
    /\ UNCHANGED <<style_vars, extract_vars, batch_vars, dom_vars>>

\* lines 675-677: the '.slide' containers of the page are listed
FindSlides ==
    /\ file_pc = "find"
    /\ slide_elements' \in SeqsUpTo(SlideAnswers, MaxSlides)
    /\ browser_log' = Append(browser_log, "find_slides")
    /\ file_pc' = "extract"
    /\ UNCHANGED <<slide_i, slides_data, prs_slides>>
    /\ UNCHANGED <<style_vars, extract_vars, batch_vars, dom_vars>>

\* lines 679-736: one pass of the loop over slide_elements
ExtractSlide ==
    /\ file_pc = "extract"
    /\ slide_i < Len(slide_elements)
    /\ slides_data' = AppendSlide(slides_data, slide_i, slide_elements[slide_i + 1])
    /\ slide_i' = slide_i + 1
    /\ UNCHANGED <<file_pc, slide_elements, prs_slides, browser_log>>
    /\ UNCHANGED <<style_vars, extract_vars, batch_vars, dom_vars>>

\* line 738: return slides_data
ReturnSlides ==
    /\ file_pc = "extract"
    /\ slide_i = Len(slide_elements)
    /\ file_pc' = "render"
    /\ slide_i' = 0
    /\ UNCHANGED <<slide_elements, slides_data, prs_slides, browser_log>>
    /\ UNCHANGED <<style_vars, extract_vars, batch_vars, dom_vars>>

\* lines 1157-1159: a slide is added for the next slide_data, with its
\* background style and its elements
AddSlide ==
    /\ file_pc = "render"
    /\ slide_i < Len(slides_data)
    /\ prs_slides' = Append(prs_slides, slides_data[slide_i + 1])
    /\ slide_i' = slide_i + 1
    /\ UNCHANGED <<file_pc, slide_elements, slides_data, browser_log>>
    /\ UNCHANGED <<style_vars, extract_vars, batch_vars, dom_vars>>

\* lines 1161-1165: the presentation is saved
SavePresentation ==
    /\ file_pc = "render"
    /\ slide_i = Len(slides_data)
    /\ file_pc' = "saved"
    /\ UNCHANGED <<slide_elements, slide_i, slides_data, prs_slides, browser_log>>
    /\ UNCHANGED <<style_vars, extract_vars, batch_vars, dom_vars>>

NextFile ==
    \/ LoadPage
    \/ WaitForIcons
    \/ WaitRaises
    \/ FindSlides
    \/ ExtractSlide
    \/ ReturnSlides
    \/ AddSlide
    \/ SavePresentation

----------------------------------------------------------------------------
(* extract_data_from_html on one slide given as a tree of elements *)

\* most child elements of a '.slide' container
MaxParts == 2

\* an element of the page: its container class, what the browser answers
\* for it, and its child elements
El(cls, kind, kids) == [cls |-> cls, kind |-> kind, kids |-> kids]

TextEl == El("", "text", <<>>)
IconEl == El("", "icon", <<>>)
CodeEl == El("", "code", <<>>)
\* an element whose child list cannot be read
StaleEl == El("", "stale", <<>>)
HeaderEl(kids) == El("slide-header", "box", kids)
ContentEl(kids) == El("slide-content", "box", kids)
WrapperEl(kids) == El("", "box", kids)

\* the child elements a '.slide' container may have
Parts ==
    { TextEl, IconEl, StaleEl,
      HeaderEl(<<TextEl>>), HeaderEl(<<IconEl, TextEl>>), HeaderEl(<<StaleEl, TextEl>>),
      ContentEl(<<TextEl>>), ContentEl(<<IconEl, CodeEl>>),
      \* a header inside the content container
      ContentEl(<<HeaderEl(<<IconEl>>), CodeEl>>),
      \* a header below a child that is no container
      WrapperEl(<<HeaderEl(<<TextEl>>), TextEl>>),
      WrapperEl(<<IconEl>>) }

SlideDoms == SeqsUpTo(Parts, MaxParts)

\* the class list of an element
ClassesOf(e) == IF e.cls = "" THEN {} ELSE {e.cls}

\* what the browser answers for an element of the tree
AnswerOf(e) ==
    IF e.kind = "text"
    THEN Answer(TRUE, ClassesOf(e) \cup {"title"}, "ok", 100, 400, BgTransparent, "none", FALSE, <<Words>>, FALSE)
    ELSE IF e.kind = "icon"
    THEN Answer(TRUE, ClassesOf(e) \cup {"material-icons"}, "ok", 40, 24, BgTransparent, "path", FALSE, <<Words>>, FALSE)
    ELSE IF e.kind = "code"
    THEN Answer(TRUE, ClassesOf(e) \cup {"code-block"}, "ok", 40, 200, BgWhite, "path", FALSE, <<Words>>, FALSE)
    ELSE IF e.kind = "stale"
    THEN Answer(TRUE, ClassesOf(e), "ok", 40, 200, BgTransparent, "none", FALSE, <<Div>>, TRUE)
    ELSE Answer(TRUE, ClassesOf(e), "ok", 40, 200, BgTransparent, "none", FALSE,
                [k \in 1..Len(e.kids) |-> Div], FALSE)

\* an element is named by its path: the positions to follow from the slide
\* container, which is <<>>
RECURSIVE ElementAt(_, _)
ElementAt(forest, path) ==
    IF Len(path) = 1 THEN forest[path[1]]
    ELSE ElementAt(forest[path[1]].kids, Tail(path))

\* find_elements(By.XPATH, "./*") of the element at a path
KidsAt(forest, path) == IF path = <<>> THEN forest ELSE ElementAt(forest, path).kids

\* find_element(By.CSS_SELECTOR, "." + cls): the first descendant in document
\* order that has the class, as <<path>>, or <<>> for NoSuchElementException
RECURSIVE FindInForest(_, _, _, _)
FindInForest(forest, cls, prefix, k) ==
    IF k > Len(forest) THEN <<>>
    ELSE IF forest[k].cls = cls THEN <<Append(prefix, k)>>
    ELSE IF FindInForest(forest[k].kids, cls, Append(prefix, k), 1) # <<>>
         THEN FindInForest(forest[k].kids, cls, Append(prefix, k), 1)
    ELSE FindInForest(forest, cls, prefix, k + 1)

find_element(forest, cls) == FindInForest(forest, cls, <<>>, 1)

\* lines 699-720: the header, then the content container; the slide
\* container only when neither is found
ContainersOf(forest) ==
    IF find_element(forest, "slide-header") \o find_element(forest, "slide-content") = <<>>
    THEN << <<>> >>
    ELSE find_element(forest, "slide-header") \o find_element(forest, "slide-content")

\* one call of parse_element_recursively in the log
Visit(path, index, top) == [path |-> path, index |-> index, top |-> top]

\* a call of parse_element_recursively with all the calls below it: whether
\* it raised, what it returned (<<>> is None), element_counter['i'] at its
\* end, the calls made, the raster files written and the page it leaves
Parsed(raised, result, counter, calls, files, pg) ==
    [raised |-> raised, result |-> result, counter |-> counter,
     visits |-> calls, files |-> files, page |-> pg]

\* the raster file of a node that has one, with the index of the node and the
\* element it shows
FilesOf(result, path) ==
    IF result # <<>> /\ result[1].icon_path # None
    THEN <<[file |-> result[1].icon_path, index |-> result[1].index, element |-> path]>>
    ELSE <<>>

RECURSIVE ParseDom(_, _, _, _, _, _, _)
RECURSIVE ParseKids(_, _, _, _, _, _)

\* lines 579-586: the result of a child is appended when it is not None; an
\* exception of the child ends this call too
AfterKid(kids, path, s, k, bg, acc, r) ==
    IF r.raised
    THEN Parsed(TRUE, <<>>, r.counter, acc.visits \o r.visits, acc.files \o r.files, r.page)
    ELSE ParseKids(kids, path, s, k + 1, bg,
                   Parsed(FALSE, <<[acc.result[1] EXCEPT !.children = @ \o r.result]>>,
                          r.counter, acc.visits \o r.visits, acc.files \o r.files, r.page))

\* lines 578-592: the loop over the child elements from the k-th on; acc
\* holds the node under construction
ParseKids(kids, path, s, k, bg, acc) ==
    IF k > Len(kids)
    THEN [acc EXCEPT !.result = ReturnAfterChildren(acc.result[1])]
    ELSE AfterKid(kids, path, s, k, bg, acc,
                  ParseDom(kids[k], Append(path, k), s, acc.counter + 1, bg, FALSE, acc.page))

\* a call whose first part ended as o
ParseDomOutcome(e, path, s, index, top, pg, o) ==
    IF o.kind = "return"
    THEN Parsed(FALSE, o.result, index, <<Visit(path, index, top)>>, FilesOf(o.result, path), pg)
    ELSE IF o.kind = "raise"
    THEN Parsed(TRUE, <<>>, index, <<Visit(path, index, top)>>, <<>>, pg)
    ELSE ParseKids(e.kids, path, s, 1, o.bg,
                   Parsed(FALSE, <<o.data>>, index, <<Visit(path, index, top)>>, <<>>, pg))

\* lines 465-592: parse_element_recursively on the element e found at path,
\* for slide s, with element_counter['i'] = index at its start
ParseDom(e, path, s, index, parent_bg_color, top, pg) ==
    ParseDomOutcome(e, path, s, index, top, PageAfterParse(AnswerOf(e), pg),
                    parse_element(AnswerOf(e), s, index, parent_bg_color))

IdleDom ==
    /\ dom_pc = "idle"
    /\ slide_dom = <<>>
    /\ dom_i = 0
    /\ containers_to_process = <<>>
    /\ container_k = 0
    /\ child_k = 0
    /\ visits = <<>>
    /\ raster_files = <<>>

\* lines 679-698: slide i of the page, before its containers are looked up
InitDom ==
    /\ dom_pc = "containers"
    /\ slide_dom \in SlideDoms
    /\ dom_i \in 0..(MaxSlides - 1)
    /\ containers_to_process = <<>>
    /\ container_k = 0
    /\ child_k = 0
    /\ visits = <<>>
    /\ raster_files = <<>>

\* lines 699-720
FindContainers ==
    /\ dom_pc = "containers"
    /\ containers_to_process' = ContainersOf(slide_dom)
    /\ container_k' = 1
    /\ child_k' = 0
    /\ dom_pc' = "extract"
    /\ UNCHANGED <<slide_dom, dom_i, visits, raster_files>>
    /\ UNCHANGED <<style_vars, extract_vars, batch_vars, file_vars>>

\* the container the loop of line 723 is at, and its child elements
CurrentContainer == containers_to_process[container_k]
CurrentKids == KidsAt(slide_dom, CurrentContainer)

\* lines 726-729: the call for the next child of the container
NextChildCall ==
    ParseDom(CurrentKids[child_k + 1], Append(CurrentContainer, child_k + 1), dom_i,
             element_counter + 1, None, TRUE, page)

AtChild ==
    /\ dom_pc = "extract"
    /\ container_k <= Len(containers_to_process)
    /\ child_k < Len(CurrentKids)

\* lines 725-731: one child of the container is extracted
ParseChildOf(r) ==
    /\ ~r.raised
    /\ element_counter' = r.counter
    /\ elements' = elements \o r.result
    /\ visits' = visits \o r.visits
    /\ raster_files' = raster_files \o r.files
    /\ page' = r.page
    /\ child_k' = child_k + 1
    /\ UNCHANGED <<dom_pc, slide_dom, dom_i, containers_to_process, container_k>>
    /\ UNCHANGED <<pc, top_remaining, stack, last, skipped, shapes>>
    /\ UNCHANGED <<style_vars, batch_vars, file_vars>>

ParseChild == AtChild /\ ParseChildOf(NextChildCall)

\* lines 733-736: an exception below a child ends the slide
ParseChildRaisesOf(r) ==
    /\ r.raised
    /\ element_counter' = r.counter
    /\ visits' = visits \o r.visits
    /\ raster_files' = raster_files \o r.files
    /\ page' = r.page
    /\ dom_pc' = "extracted"
    /\ UNCHANGED <<slide_dom, dom_i, containers_to_process, container_k, child_k>>
    /\ UNCHANGED <<pc, top_remaining, stack, elements, last, skipped, shapes>>
    /\ UNCHANGED <<style_vars, batch_vars, file_vars>>

ParseChildRaises == AtChild /\ ParseChildRaisesOf(NextChildCall)

\* line 723: the next container
NextContainer ==
    /\ dom_pc = "extract"
    /\ container_k <= Len(containers_to_process)
    /\ child_k = Len(CurrentKids)
    /\ container_k' = container_k + 1
    /\ child_k' = 0
    /\ UNCHANGED <<dom_pc, slide_dom, dom_i, containers_to_process, visits, raster_files>>
    /\ UNCHANGED <<style_vars, extract_vars, batch_vars, file_vars>>

\* line 736: every container is done
AppendSlideData ==
    /\ dom_pc = "extract"
    /\ container_k > Len(containers_to_process)
    /\ dom_pc' = "extracted"
    /\ UNCHANGED <<slide_dom, dom_i, containers_to_process, container_k, child_k, visits, raster_files>>
    /\ UNCHANGED <<style_vars, extract_vars, batch_vars, file_vars>>

\* lines 1157-1159: the slide is rendered
RenderDomSlide ==
    /\ dom_pc = "extracted"
    /\ shapes' = add_elements_to_slide(elements)
    /\ elements' = ElementsAfterRendering(elements)
    /\ dom_pc' = "rendered"
    /\ UNCHANGED <<slide_dom, dom_i, containers_to_process, container_k, child_k, visits, raster_files>>
    /\ UNCHANGED <<pc, top_remaining, stack, element_counter, last, skipped, page>>
    /\ UNCHANGED <<style_vars, batch_vars, file_vars>>

NextDom ==
    \/ FindContainers
    \/ ParseChild
    \/ ParseChildRaises
    \/ NextContainer
    \/ AppendSlideData
    \/ RenderDomSlide

----------------------------------------------------------------------------
(* The style operations as actions: each runs once on the chosen string *)

IdleExtract ==
    /\ pc = "idle"
    /\ top_remaining = 0
    /\ stack = <<>>
    /\ element_counter = 0
    /\ elements = <<>>
    /\ last = NoCall
    /\ skipped = 0
    /\ shapes = <<>>
    /\ page = CleanPage

IdleStyle ==
    /\ style_src = TextSource(<<>>)
    /\ style = <<>>
    /\ phase = "idle"
    /\ color_out = TransparentBlack
    /\ gradient_out = NoGradient
    /\ slide_fill = DefaultFill

InitStyle ==
    /\ IdleExtract
    /\ IdleBatch
    /\ IdleFile
    /\ IdleDom
    /\ style_src \in StyleSources
    /\ style = StyleText(style_src)
    /\ phase = "input"
    /\ color_out = TransparentBlack
    /\ gradient_out = NoGradient
    /\ slide_fill = DefaultFill

DoParseColor ==
    /\ phase = "input"
    /\ phase' = "parse_color"
    /\ color_out' = parse_color(style)
    /\ UNCHANGED <<style_src, style, gradient_out, slide_fill>>
    /\ UNCHANGED <<extract_vars, batch_vars, file_vars, dom_vars>>

DoParseLinearGradient ==
    /\ phase = "input"
    /\ phase' = "parse_linear_gradient"
    /\ gradient_out' = parse_linear_gradient(style)
    /\ UNCHANGED <<style_src, style, color_out, slide_fill>>
    /\ UNCHANGED <<extract_vars, batch_vars, file_vars, dom_vars>>

DoAddSlideBackground ==
    /\ phase = "input"
    /\ phase' = "add_slide"
    /\ slide_fill' = add_slide_with_gradient_background(style)
    /\ UNCHANGED <<style_src, style, color_out, gradient_out>>
    /\ UNCHANGED <<extract_vars, batch_vars, file_vars, dom_vars>>

NextStyle ==
    \/ DoParseColor
    \/ DoParseLinearGradient
    \/ DoAddSlideBackground

vars == <<style_vars, extract_vars, batch_vars, file_vars, dom_vars>>

\* the style parsers and the slide background on one style string
SpecStyle == InitStyle /\ [][NextStyle]_vars

Init == IdleStyle /\ InitExtract /\ IdleBatch /\ IdleFile /\ IdleDom

\* extraction and rendering of one slide
Spec == Init /\ [][Next]_vars

\* a batch of files dealt out to workers
InitOfBatch == IdleStyle /\ IdleExtract /\ InitBatch /\ IdleFile /\ IdleDom

SpecBatch == InitOfBatch /\ [][NextBatch]_vars

\* the slides of one file
InitOfFile == IdleStyle /\ IdleExtract /\ IdleBatch /\ InitFile /\ IdleDom

SpecFile == InitOfFile /\ [][NextFile]_vars

\* one slide given as a tree of elements
InitOfDom == IdleStyle /\ IdleExtract /\ IdleBatch /\ IdleFile /\ InitDom

SpecDom == InitOfDom /\ [][NextDom]_vars

\* the batch with threads that are scheduled and calls that return: a step
\* that can be taken is taken in the end
SpecBatchFair == SpecBatch /\ WF_vars(NextBatch)

----------------------------------------------------------------------------
(* Claims about the extraction and the rendering of a slide *)

\* every node of a forest of ElementData, descendants included
RECURSIVE NodesOf(_)
NodesOf(forest) ==
    IF forest = <<>> THEN {}
    ELSE {Head(forest)} \cup NodesOf(Head(forest).children) \cup NodesOf(Tail(forest))

\* the nodes returned so far: those of the slide and those collected by the
\* calls still active
ExtractedNodes ==
    NodesOf(elements) \cup UNION { NodesOf(stack[i].data.children) : i \in 1..Len(stack) }

\* direct text, a raster path, an own background or a surviving child
Useful(d) ==
    d.text # None \/ d.icon_path # None \/ d.has_background \/ d.children # <<>>

IsRaster(d) == IsIcon(d.classes) \/ IsCodeBlock(d.classes)

\* C1: a laid-out, readable element is discarded exactly when it has no direct
\* text, no raster path, no own background and no surviving child (an icon or
\* code block whose capture gave nothing included), so every node of every
\* extracted tree has text, a raster path, an own background or a child.
C1_PrunedIffNothingUseful ==
    /\ last.visible => (last.kept <=> Useful(last.data))
    /\ \A d \in ExtractedNodes : Useful(d)

\* C2: when a step on one element fails, only the subtree of that element is
\* missing: every sibling and every later top-level element of the slide is
\* still visited and extracted, so no element is left out when the slide ends.
C2_FailureIsolated ==
    pc \in {"extracted", "rendered"} => skipped = 0

\* positions in shapes of the shapes of one kind made for the node n
ShapesFor(kind, n) ==
    { i \in 1..Len(shapes) : shapes[i].shape = kind /\ shapes[i].node = n }

\* positions of every shape made for a node of the forest
ShapesWithin(forest) ==
    { i \in 1..Len(shapes) : \E d \in NodesOf(forest) : shapes[i].node = d.index }

Before(I, J) == \A i \in I, j \in J : i < j

\* the shapes of the node d: at most one background, then an image or else a
\* text box, all before the shapes of its descendants, and the subtrees of its
\* children one after the other in their order
NodeInOrder(d) ==
    /\ Cardinality(ShapesFor("background", d.index)) = IF d.has_background THEN 1 ELSE 0
    /\ Cardinality(ShapesFor("picture", d.index)) = IF d.icon_path # None THEN 1 ELSE 0
    /\ Cardinality(ShapesFor("textbox", d.index))
          = IF d.icon_path = None /\ d.text # None THEN 1 ELSE 0
    /\ ShapesFor("picture", d.index) = {} \/ ShapesFor("textbox", d.index) = {}
    /\ Before(ShapesFor("background", d.index),
              ShapesFor("picture", d.index) \cup ShapesFor("textbox", d.index))
    /\ Before(ShapesFor("background", d.index) \cup ShapesFor("picture", d.index)
                 \cup ShapesFor("textbox", d.index),
              ShapesWithin(d.children))
    /\ \A i, j \in 1..Len(d.children) :
          i < j => Before(ShapesWithin(<<d.children[i]>>), ShapesWithin(<<d.children[j]>>))

\* C3: add_elements_to_slide emits for every node its background shape, then
\* its image or else its text box (never both), then the shapes of its children
\* in their order; a background comes before every shape of a descendant.
C3_RenderOrder ==
    pc = "rendered" =>
        /\ \A d \in NodesOf(elements) : NodeInOrder(d)
        /\ \A i, j \in 1..Len(elements) :
              i < j => Before(ShapesWithin(<<elements[i]>>), ShapesWithin(<<elements[j]>>))
        /\ ShapesWithin(elements) = 1..Len(shapes)

\* a rendered slide with a node that has a background, content of its own and a
\* child with a shape, next to another top-level node
C3_Witness ==
    /\ pc = "rendered"
    /\ Len(elements) = 2
    /\ \E d \in NodesOf(elements) :
          /\ d.has_background /\ d.text # None
          /\ ShapesWithin(d.children) # {}

\* C4: a node with a raster path has no children and no direct text; for an
\* icon or code-block element neither the text is read nor the children are
\* parsed, whatever the element contains.
C4_RasterLeaves ==
    /\ \A d \in ExtractedNodes : d.icon_path # None => (d.children = <<>> /\ d.text = None)
    /\ (last.visible /\ IsRaster(last.data)) =>
          (last.data.children = <<>> /\ last.data.text = None)
    /\ \A i \in 1..Len(stack) : ~IsRaster(stack[i].data)

\* an icon with a child element was captured and returned
C4_Witness ==
    /\ last.visible /\ last.kept
    /\ IsIcon(last.data.classes)
    /\ last.data.icon_path # None
    /\ last.answer_children > 0
    /\ last.data \in ExtractedNodes

\* the nearest colour with alpha > 0 in a chain of ancestor colours, outermost
\* first; None when there is none
NearestNonTransparent(chain) ==
    IF \A i \in 1..Len(chain) : chain[i][4] <= 0 THEN None
    ELSE chain[CHOOSE i \in 1..Len(chain) :
                  chain[i][4] > 0 /\ \A j \in (i + 1)..Len(chain) : chain[j][4] <= 0]

ColorOfNode(d) == parse_color(d.geom.background_color).rgba

\* alpha > 0 and a colour other than the ancestors' effective colour
OwnBackground(color, chain) == color[4] > 0 /\ color # NearestNonTransparent(chain)

\* the colours of the active calls 1..n, outermost first
ChainOfStack(n) == [i \in 1..n |-> ColorOfNode(stack[i].data)]

\* has_background is as expected in every non-raster node of a forest whose
\* ancestors have the colours of chain
RECURSIVE BackgroundsAsExpected(_, _)
BackgroundsAsExpected(forest, chain) ==
    \A i \in 1..Len(forest) :
        \/ IsRaster(forest[i])
        \/ /\ forest[i].has_background = OwnBackground(ColorOfNode(forest[i]), chain)
           /\ BackgroundsAsExpected(forest[i].children, Append(chain, ColorOfNode(forest[i])))

\* C5: a non-raster node has has_background exactly when its colour has
\* alpha > 0 (0.05 included) and differs from the effective background of its
\* ancestors, the nearest non-transparent colour above it; transparent wrappers
\* in between change nothing.
C5_HasBackground ==
    /\ BackgroundsAsExpected(elements, <<>>)
    /\ \A i \in 1..Len(stack) :
          /\ stack[i].data.has_background
                = OwnBackground(ColorOfNode(stack[i].data), ChainOfStack(i - 1))
          /\ BackgroundsAsExpected(stack[i].data.children, ChainOfStack(i))
    /\ (last.visible /\ ~IsRaster(last.data) /\ last.depth <= Len(stack)) =>
          last.data.has_background
                = OwnBackground(ColorOfNode(last.data), ChainOfStack(last.depth))

\* a tinted element (alpha 0.05) with an own background, inside it a
\* transparent wrapper, inside that an element of the same tint without one
C5_Witness ==
    \E d \in NodesOf(elements) :
        /\ d.has_background /\ ColorOfNode(d)[4] = 50
        /\ \E w \in NodesOf(d.children) :
              /\ ColorOfNode(w)[4] = 0
              /\ \E c \in NodesOf(w.children) :
                    ColorOfNode(c) = ColorOfNode(d) /\ ~c.has_background

\* the node a shape was made for
NodeOfShape(sh) == CHOOSE d \in NodesOf(elements) : d.index = sh.node

TextboxShapes == { i \in 1..Len(shapes) : shapes[i].shape = "textbox" }

\* C6 as stated: a text box of a title is as wide as max(width, slide width
\* - x - 40), e.g. 1140 for 400 at x = 100; any other text box is 1.25 times
\* as wide as the element, e.g. 250 for 200.
C6_WidthHeuristic ==
    pc = "rendered" =>
        \A i \in TextboxShapes :
            shapes[i].width = px_to_emu(TextboxWidth_heuristic(NodeOfShape(shapes[i])))

\* C6 amended: every text box is 30 px wider than its element, whatever the
\* classes of the element: 430 for a title of 400, 230 for a text of 200.
C6_WidthPlus30 ==
    pc = "rendered" =>
        \A i \in TextboxShapes :
            /\ shapes[i].width = px_to_emu(NodeOfShape(shapes[i]).geom.width + 30)
            /\ NodeOfShape(shapes[i]).geom.width = 400 => shapes[i].width = px_to_emu(430)
            /\ NodeOfShape(shapes[i]).geom.width = 200 => shapes[i].width = px_to_emu(230)

\* a rendered slide with the text box of a title and that of another element
C6_Witness ==
    /\ pc = "rendered"
    /\ \E i, j \in TextboxShapes :
          /\ "title" \in NodeOfShape(shapes[i]).classes
          /\ NodeOfShape(shapes[i]).geom.x = 100
          /\ shapes[i].width = px_to_emu(430)
          /\ "title" \notin NodeOfShape(shapes[j]).classes
          /\ shapes[j].width = px_to_emu(230)

----------------------------------------------------------------------------
(* Claims about the style parsers and the slide background *)

\* the fill made from more than two colours is a gradient from the first
\* colour to the colour at position last, with a warning and without an error
TwoStopsOf(colors, last_stop, fill) ==
    Len(colors) > 2 =>
        /\ fill.kind = "gradient"
        /\ fill.stops = <<ColorStop(colors[1]), ColorStop(colors[last_stop])>>
        /\ fill.warned
        /\ ~fill.error

FirstAndLast(colors, fill) == TwoStopsOf(colors, Len(colors), fill)

\* C7 as stated: with more than two usable colour stops the two gradient stops
\* of the slide are the first and the LAST parsed colour, a warning is logged
\* and nothing fails.
C7_FirstAndLastStop ==
    phase = "add_slide" => FirstAndLast(parse_linear_gradient(style).colors, slide_fill)

\* C7 amended: with more than two usable colour stops the two gradient stops of
\* the slide are the first and the SECOND parsed colour, a warning is logged
\* and nothing fails.
C7_FirstTwoStops ==
    phase = "add_slide" => TwoStopsOf(parse_linear_gradient(style).colors, 2, slide_fill)

SecondDiffersFromLast(colors) == Len(colors) > 2 /\ colors[2] # colors[Len(colors)]

\* a slide built from a gradient of three usable stops whose second and last
\* colours differ
C7_Witness ==
    /\ phase = "add_slide"
    /\ SecondDiffersFromLast(parse_linear_gradient(style).colors)
    /\ slide_fill.kind = "gradient"

\* C8: when the style yields no gradient and parse_color yields its failure
\* value (0,0,0,0), the slide keeps its default fill.
C8_UnparseableKeepsDefault ==
    (/\ phase = "add_slide"
     /\ parse_linear_gradient(style).none
     /\ parse_color(style).rgba = <<0, 0, 0, 0>>) =>
        slide_fill.kind = "default"

\* C9: parse_color never raises; it returns r, g, b in 0..255 and alpha in
\* 0.0..1.0; three valid numeric tokens give alpha 1.0; the keywords, the
\* empty string and text without three numeric tokens give (0,0,0,0);
\* rgba(211,47,47,0.05) gives (211,47,47,0.05).
C9_ParseColorTotal ==
    phase = "parse_color" =>
        LET c    == color_out.rgba
            toks == FindAllNum(style, 0)
        IN  /\ color_out.exc = "none"
            /\ c[1] \in 0..255 /\ c[2] \in 0..255 /\ c[3] \in 0..255
            /\ c[4] \in 0..1000
            /\ (Len(toks) = 3 /\ \A i \in 1..3 : ToFloat(toks[i]).kind # "err") => c[4] = 1000
            /\ style \in { <<>>, <<"t","r","a","n","s","p","a","r","e","n","t">>, <<"i","n","h","e","r","i","t">>, <<"i","n","i","t","i","a","l">>, <<"u","n","s","e","t">>,
                           <<"n","o","n","e">>, <<"r","e","d">>, <<"#","f","f","0","0","0","0">> } => c = <<0, 0, 0, 0>>
            /\ style = <<"r","g","b","a","(","2","1","1",",","4","7",",","4","7",",","0",".","0","5",")">> => c = <<211, 47, 47, 50>>

\* the colour a gradient segment of StopPieces denotes (alpha in thousandths)
StopPieceColor(piece) ==
    CASE piece = <<"r","g","b","a","(","0",",","0",",","0",",","0",")"," ","0","%">> -> <<0, 0, 0, 0>>
      [] piece = <<"r","g","b","(","1","0",",","2","0",",","3","0",")"," ","1","0","0","%">> -> <<10, 20, 30, 1000>>
      [] piece = <<"r","g","b","(","2","5","5",","," ","0",","," ","0",")">> -> <<255, 0, 0, 1000>>
      [] piece = <<"r","g","b","a","(","2","1","1",","," ","4","7",","," ","4","7",","," ","0",".","0","5",")"," ","5","0","%">> -> <<211, 47, 47, 50>>

\* C10: parse_linear_gradient returns, for a gradient composed of colour
\* segments, exactly the colours of the segments that are not (0,0,0,0), in
\* order (one colour per segment: commas inside rgb(...) do not split), and
\* None when none is left; a result has at least one stop and no (0,0,0,0)
\* stop; the 135deg example gives angle 135 and the one stop (10,20,30,1.0).
C10_GradientStops ==
    phase = "parse_linear_gradient" =>
        /\ ~gradient_out.none =>
              /\ Len(gradient_out.colors) >= 1
              /\ \A i \in 1..Len(gradient_out.colors) : gradient_out.colors[i] # <<0, 0, 0, 0>>
        /\ (style_src.kind = "gradient" /\ style_src.angle # <<"1",".","2",".","3","d","e","g">>) =>
              LET all  == [i \in 1..Len(style_src.stops) |-> StopPieceColor(style_src.stops[i])]
                  kept == SelectSeq(all, LAMBDA c : c # <<0, 0, 0, 0>>)
              IN  IF kept = <<>> THEN gradient_out.none
                  ELSE ~gradient_out.none /\ gradient_out.colors = kept
        /\ style = <<"l","i","n","e","a","r","-","g","r","a","d","i","e","n","t","(","1","3","5","d","e","g",","," ","r","g","b","a","(","0",",","0",",","0",",","0",")"," ","0","%",","," ","r","g","b","(","1","0",",","2","0",",","3","0",")"," ","1","0","0","%",")">> =>
              gradient_out = Gradient(FloatNum(135000), << <<10, 20, 30, 1000>> >>)

\* a gradient of several segments, one of them (0,0,0,0), parsed to fewer stops
C10_Witness ==
    /\ phase = "parse_linear_gradient"
    /\ style_src.kind = "gradient"
    /\ Len(style_src.stops) >= 2
    /\ ~gradient_out.none
    /\ Len(gradient_out.colors) < Len(style_src.stops)

\* the angle, in thousandths of a degree, that a first segment of AnglePieces
\* denotes in CSS; 180 without a segment and for an unknown direction
CssAngleOfPiece(piece) ==
    CASE piece = <<>> -> 180000
      [] piece = <<"1","3","5","d","e","g">> -> 135000
      [] piece = <<"1","8","0","d","e","g">> -> 180000
      [] piece = <<"2","7","0","d","e","g">> -> 270000
      [] piece = <<"4","5","0","d","e","g">> -> 450000
      [] piece = <<"-","1","3","5","d","e","g">> -> 0 - 135000
      [] piece = <<"0",".","5","d","e","g">> -> 500
      [] piece = <<"t","o"," ","t","o","p">> -> 0
      [] piece = <<"t","o"," ","r","i","g","h","t">> -> 90000
      [] piece = <<"t","o"," ","b","o","t","t","o","m">> -> 180000
      [] piece = <<"t","o"," ","l","e","f","t">> -> 270000
      [] piece = <<"t","o"," ","t","o","p"," ","r","i","g","h","t">> -> 45000
      [] piece = <<"t","o"," ","b","o","t","t","o","m"," ","r","i","g","h","t">> -> 135000
      [] piece = <<"t","o"," ","b","o","t","t","o","m"," ","l","e","f","t">> -> 225000
      [] piece = <<"t","o"," ","t","o","p"," ","l","e","f","t">> -> 315000
      [] piece = <<"t","o"," ","n","o","w","h","e","r","e">> -> 180000

RgbaOfBackground(bg) ==
    CASE bg = BgTint -> <<211, 47, 47, 50>>
      [] bg = BgShade -> <<0, 0, 0, 800>>
      [] bg = BgWhite -> <<255, 255, 255, 1000>>

\* fg*alpha + 255*(1-alpha) as a number, converted to an integer
BlendOverWhite(fg, milli) == (fg * milli + 255 * (1000 - milli)) \div 1000

BackgroundShapes == { i \in 1..Len(shapes) : shapes[i].shape = "background" }

FillAsBlended(fill, c) ==
    IF c[4] < 1000
    THEN fill = <<BlendOverWhite(c[1], c[4]), BlendOverWhite(c[2], c[4]), BlendOverWhite(c[3], c[4])>>
    ELSE fill = <<c[1], c[2], c[3]>>

\* C12: the fill of a background shape whose colour has alpha < 1 is, per
\* channel, fg*alpha + 255*(1-alpha) converted to an integer in 0..255; with
\* alpha = 1 it is the r, g, b of the colour unchanged.
C12_BlendOverWhite ==
    pc = "rendered" =>
        \A i \in BackgroundShapes :
            /\ \A k \in 1..3 : shapes[i].fill[k] \in 0..255
            /\ FillAsBlended(shapes[i].fill,
                             RgbaOfBackground(NodeOfShape(shapes[i]).geom.background_color))

\* C13: rendering leaves the scene model as it was: the geometry (the width
\* too), text, raster path, has_background and children of every node are the
\* same after add_elements_to_slide as before it.
C13_RenderingKeepsModel ==
    [][(pc = "extracted" /\ pc' = "rendered") =>
          /\ elements' = elements
          /\ \A d \in NodesOf(elements) :
                \E n \in NodesOf(elements') :
                    /\ n.index = d.index
                    /\ n.geom.width = d.geom.width
                    /\ n.text = d.text /\ n.icon_path = d.icon_path
                    /\ n.has_background = d.has_background
                    /\ Len(n.children) = Len(d.children)]_vars

\* a rendered slide with the text box of an element of width 200: the text
\* box is 230 wide and the element still 200
C13_Witness ==
    /\ pc = "rendered"
    /\ \E i \in TextboxShapes :
          /\ shapes[i].width = px_to_emu(230)
          /\ NodeOfShape(shapes[i]).geom.width = 200
          /\ NodeOfShape(shapes[i]).children # <<>>

----------------------------------------------------------------------------
(* Claims about the batch *)

\* the files a worker has taken up, in the order it took them up
AttemptedFiles(wk) == [k \in 1..Len(wk.attempted) |-> wk.attempted[k].file]

IsPrefix(s, t) == Len(s) <= Len(t) /\ s = SubSeq(t, 1, Len(s))

\* a worker whose driver was created takes up its files in chunk order, each
\* with that driver, whatever failed before, and ends only after the last
KeepsGoing(w, wk, chunk) ==
    /\ IsPrefix(AttemptedFiles(wk), chunk)
    /\ \A k \in 1..Len(wk.attempted) : wk.attempted[k].driver = w
    /\ wk.failed \subseteq { chunk[k] : k \in 1..Len(wk.attempted) }
    /\ wk.pc = "finished" => AttemptedFiles(wk) = chunk

\* C14: in one worker a failure while extracting, rendering or saving a file
\* does not cancel the files behind it: every file of the chunk is taken up,
\* in chunk order, with the driver the worker created.
C14_FileFailureIsLocal ==
    \A w \in DOMAIN workers :
        workers[w].driver # 0 => KeepsGoing(w, workers[w], file_chunks[w])

\* a worker has ended after the first of its two files failed and the second
\* was saved
C14_Witness ==
    \E w \in DOMAIN workers :
        /\ workers[w].pc = "finished"
        /\ Len(file_chunks[w]) = 2
        /\ workers[w].failed = {file_chunks[w][1]}
        /\ Len(workers[w].attempted) = 2
        /\ \E r \in written : r.worker = w /\ r.path = OutputPath(file_chunks[w][2])

\* init_driver raised in this worker
InitFailed(wk) == wk.pc = "finished" /\ wk.driver = 0

NothingDoneBy(w) ==
    /\ workers[w].attempted = <<>>
    /\ workers[w].failed = {}
    /\ \A r \in written : r.worker # w

\* C15: a worker whose driver cannot be created takes up none of its files
\* and ends; every other worker still takes up all files of its chunk, and
\* main does not raise and runs to its end.
C15_InitFailureIsLocal ==
    /\ [](\A w \in DOMAIN workers :
             /\ workers[w].driver = 0 => NothingDoneBy(w)
             /\ (workers[w].driver # 0 /\ workers[w].pc = "finished")
                    => AttemptedFiles(workers[w]) = file_chunks[w])
    /\ []((\E w \in DOMAIN workers : InitFailed(workers[w])) => main_pc # "raised")
    /\ ((\E w \in DOMAIN workers : InitFailed(workers[w])) ~> (main_pc = "completed"))

\* main has ended after one worker could not create its driver and another
\* saved the file of its chunk
C15_Witness ==
    /\ main_pc = "completed"
    /\ \E w, v \in DOMAIN workers :
          /\ InitFailed(workers[w])
          /\ Len(file_chunks[w]) = 2
          /\ workers[v].driver = v
          /\ AttemptedFiles(workers[v]) = file_chunks[v]
          /\ \E r \in written : r.worker = v /\ r.path = OutputPath(file_chunks[v][1])

\* the number in a file name, read off by hand
NumberOfName(f) ==
    CASE f = <<"f","i","l","e","_","2",".","h","t","m","l">> -> 2
      [] f = <<"f","i","l","e","_","1","0",".","h","t","m","l">> -> 10
      [] f = <<"f","i","l","e"," ","2",".","h","t","m","l">> -> 0
      [] f = <<"n","o","t","e","s",".","h","t","m","l">> -> 0

\* the places a file has in the chunks
PlacesOf(f) ==
    { p \in (DOMAIN file_chunks) \X (1..MaxFiles) :
        p[2] <= Len(file_chunks[p[1]]) /\ file_chunks[p[1]][p[2]] = f }

\* C16: the files are dealt out before a worker runs and stay where they
\* are: with n = min(workers asked for, number of files), the file at sorted
\* position i (from 0) is in the chunk of worker i mod n, every file is in
\* exactly one chunk, no chunk is empty, and a worker only takes up and
\* writes files of its own chunk.
C16_RoundRobin ==
    main_pc \in {"running", "completed"} =>
        /\ \A i, j \in 1..Len(html_files) :
              i < j => NumberOfName(html_files[i]) <= NumberOfName(html_files[j])
        /\ Len(file_chunks) = Min(requested, Len(html_files))
        /\ DOMAIN workers = DOMAIN file_chunks
        /\ \A i \in 0..(Len(html_files) - 1) :
              <<(i % Len(file_chunks)) + 1, (i \div Len(file_chunks)) + 1>> \in PlacesOf(html_files[i + 1])
        /\ \A f \in FileNames :
              Cardinality(PlacesOf(f)) = IF \E i \in 1..Len(html_files) : html_files[i] = f THEN 1 ELSE 0
        /\ \A w \in DOMAIN file_chunks : file_chunks[w] # <<>>
        /\ \A w \in DOMAIN workers : \A k \in 1..Len(workers[w].attempted) :
              file_chunks[w][k] = workers[w].attempted[k].file
        /\ \A r \in written : \E k \in 1..Len(file_chunks[r.worker]) :
              file_chunks[r.worker][k] = r.file

\* three files and two workers: the first worker has the first and the
\* third file and has taken up both
C16_Witness ==
    /\ main_pc = "completed"
    /\ Len(html_files) = 3 /\ Len(file_chunks) = 2
    /\ file_chunks[1] = <<html_files[1], html_files[3]>>
    /\ file_chunks[2] = <<html_files[2]>>
    /\ html_files[1] # html_files[3]
    /\ Len(workers[1].attempted) = 2

\* C17: workers share no path: what is written for a file of one worker (its
\* temporary directory, its raster files, its .pptx) is written for no file of
\* another worker.
C17_DisjointPaths ==
    \A r, q \in written :
        (r.worker # q.worker /\ r.file # q.file) => r.path # q.path

----------------------------------------------------------------------------
(* Claims about the slides of a file *)

\* the slide was made from the container at index i of the page
MadeFrom(sd, i) ==
    /\ sd.source = i
    /\ \A k \in 1..Len(sd.elements) : sd.elements[k].slide = i
    /\ Len(sd.elements) = (CASE slide_elements[i + 1].content = "all" -> 2
                             [] slide_elements[i + 1].content = "second_raises" -> 1
                             [] slide_elements[i + 1].content = "first_raises" -> 0)
    /\ sd.background_style =
          (IF slide_elements[i + 1].background_raises THEN None
           ELSE IF slide_elements[i + 1].background = SlideGradient THEN SlideGradient
           ELSE IF slide_elements[i + 1].background_color = BgWhite THEN BgWhite
           ELSE None)

\* C18: the slides of a file are taken in document order, and every '.slide'
\* container gives one SlideData and one output slide: the i-th output slide
\* is made from the i-th container, also when reading its background or
\* parsing its content failed.
C18_OneSlidePerContainer ==
    /\ Len(slides_data) <= Len(slide_elements)
    /\ Len(prs_slides) <= Len(slides_data)
    /\ \A i \in 0..(Len(slides_data) - 1) : MadeFrom(slides_data[i + 1], i)
    /\ \A i \in 0..(Len(prs_slides) - 1) : MadeFrom(prs_slides[i + 1], i)
    /\ file_pc \in {"render", "saved"} => Len(slides_data) = Len(slide_elements)
    /\ file_pc = "saved" => Len(prs_slides) = Len(slide_elements)

\* a saved presentation of three slides, the second from a container whose
\* background could not be read and whose content failed at once
C18_Witness ==
    /\ file_pc = "saved"
    /\ Len(slide_elements) = 3
    /\ slide_elements[2].background_raises
    /\ slide_elements[2].content = "first_raises"
    /\ slide_elements[3].content = "all"
    /\ Len(prs_slides) = 3
    /\ prs_slides[2].elements = <<>>
    /\ Len(prs_slides[3].elements) = 2
----------------------------------------------------------------------------
(* Pruning applied again to an extracted tree *)

RECURSIVE PruneForest(_)

\* the pruning rule of line 589 applied to a node whose children were pruned
PruneNode(d) ==
    IF NothingUseful([d EXCEPT !.children = PruneForest(d.children)])
    THEN <<>>
    ELSE <<[d EXCEPT !.children = PruneForest(d.children)]>>

\* the rule applied bottom-up to a list of trees
PruneForest(forest) ==
    IF forest = <<>> THEN <<>>
    ELSE PruneNode(Head(forest)) \o PruneForest(Tail(forest))

\* C19: pruning is idempotent: the pruning rule applied bottom-up to the trees
\* the extractor returned removes no node and gives the identical trees
C19_PruningIdempotent == PruneForest(elements) = elements
----------------------------------------------------------------------------
(* Wrapper elements from the page to the slide *)

\* the child nodes hold no text content: each is an element other than the
\* inline ones the script writes out, or a text node of white space
NoOwnText(childNodes) ==
    \A i \in 1..Len(childNodes) :
        \/ childNodes[i].nodeType = 1 /\ childNodes[i].tagName \notin {"SPAN", "BR", "I"}
        \/ childNodes[i].nodeType = 3 /\ Trim(childNodes[i].text) = <<>>

\* the call that ended last parsed a wrapper: a laid-out element that is no
\* raster leaf, has element children and no text content of its own
LastIsWrapper ==
    /\ last.visible /\ ~IsRaster(last.data)
    /\ last.answer_children > 0
    /\ NoOwnText(last.child_nodes)

\* C20: a wrapper element with no text content of its own (only element
\* children, possibly separated by white space) gets no direct text, is
\* pruned when it has no own background and none of its children survive,
\* and the slide holds no text box for it: every text box of the slide
\* belongs to a node whose direct text has content
C20_WrapperWithoutShape ==
    /\ LastIsWrapper => last.data.text = None
    /\ (LastIsWrapper /\ ~last.data.has_background /\ last.data.children = <<>>)
          => ~last.kept
    /\ \A i \in 1..Len(shapes) :
          shapes[i].shape = "textbox" => Trim(NodeOfShape(shapes[i]).text) # <<>>

----------------------------------------------------------------------------
(* The background colour handed down the tree *)

\* the active calls among 1..n whose element has an own background
OwnBackgroundCalls(n) == { j \in 1..n : stack[j].data.has_background }

\* the colour of the nearest of the calls 1..n with an own background, None
\* when there is none
NearestOwnBackground(n) ==
    IF OwnBackgroundCalls(n) = {} THEN None
    ELSE ColorOfNode(stack[CHOOSE j \in OwnBackgroundCalls(n) :
                              \A k \in OwnBackgroundCalls(n) : k <= j].data)

\* C21: the colour a node hands to its children is its own parsed colour when
\* it has has_background, and otherwise the value it received itself; so the
\* value handed down is the colour of the nearest ancestor (the node included)
\* with has_background, or None when there is none, and top-level elements
\* receive None.
C21_InheritedBackground ==
    \A i \in 1..Len(stack) :
        /\ stack[i].bg_for_children =
              (IF stack[i].data.has_background THEN ColorOfNode(stack[i].data)
               ELSE IF i = 1 THEN None
               ELSE stack[i - 1].bg_for_children)
        /\ stack[i].bg_for_children = NearestOwnBackground(i)

\* a tinted element with an own background, inside it a transparent wrapper
\* that hands the tint on to its children
C21_Witness ==
    /\ Len(stack) = 2
    /\ stack[1].data.has_background
    /\ ~stack[2].data.has_background
    /\ stack[2].bg_for_children = ColorOfNode(stack[1].data)
    /\ stack[2].bg_for_children # None

----------------------------------------------------------------------------
(* The slide fill and the number of colour stops *)

\* C22: the fill of the slide is switched to a gradient only when parsing the
\* background style yields at least two usable stops; with fewer than two
\* stops (one stop left after a transparent stop was discarded) no gradient
\* fill is applied to the slide.
C22_GradientNeedsTwoStops ==
    (phase = "add_slide" /\ slide_fill.kind = "gradient") =>
        /\ ~parse_linear_gradient(style).none
        /\ Len(parse_linear_gradient(style).colors) >= 2

----------------------------------------------------------------------------
(* The browser session and the documents of a worker *)

\* the worker never has more than the one session init_driver gave it, takes
\* up files only with that session, and has closed it only at its end, after
\* the last file of its chunk
OneSession(w, wk, chunk) ==
    /\ wk.opened <= 1
    /\ wk.closed <= wk.opened
    /\ (wk.opened = 1) = (wk.driver = w)
    /\ wk.driver \in {0, w}
    /\ \A k \in 1..Len(wk.attempted) : wk.opened = 1 /\ wk.attempted[k].driver = w
    /\ wk.closed = 1 => wk.pc = "finished" /\ AttemptedFiles(wk) = chunk
    /\ (wk.pc = "finished" /\ wk.opened = 1) => wk.closed = 1

\* no document is used for two files of the worker
FreshDocuments(wk) ==
    \A j, k \in 1..Len(wk.attempted) :
        (j # k /\ wk.attempted[j].prs # 0) => wk.attempted[j].prs # wk.attempted[k].prs

\* the worker has opened, or has closed, a session
HasOpened(w) == w \in DOMAIN workers /\ workers[w].opened = 1
HasClosed(w) == w \in DOMAIN workers /\ workers[w].closed = 1

\* C23: each worker owns one rendering session for its whole lifetime: it is
\* initialised once, before the first file, the same session is used for every
\* file of the chunk, each file gets a fresh output document, and the session
\* is closed exactly once, after the last file, on every path, per-file
\* failures included.
C23_OneSessionPerWorker ==
    /\ [](\A w \in DOMAIN workers :
             OneSession(w, workers[w], file_chunks[w]) /\ FreshDocuments(workers[w]))
    /\ \A w \in 1..MaxWorkers : HasOpened(w) ~> HasClosed(w)

\* a worker has ended and closed its session after two files, the first of
\* which failed, each with a document of its own
C23_Witness ==
    \E w \in DOMAIN workers :
        /\ workers[w].pc = "finished"
        /\ workers[w].opened = 1 /\ workers[w].closed = 1
        /\ Len(workers[w].attempted) = 2
        /\ workers[w].attempted[1].file \in workers[w].failed
        /\ workers[w].attempted[2].file \notin workers[w].failed
        /\ workers[w].attempted[1].prs = 1
        /\ workers[w].attempted[2].prs = 2

----------------------------------------------------------------------------
(* Elements without a box *)

\* the step ends a call on an element whose box has no width: it was found
\* not laid out, or its geometry could not be read
HiddenCallEnds == last' # last /\ last'.data.geom.width = 0

\* C25: an element whose box has zero width or zero height yields no scene
\* node and none of its descendants is visited, whatever text, background or
\* icon class it or its descendants carry; its siblings are unaffected: the
\* counter advances by one, for the element itself, no call becomes active,
\* the nodes collected so far stay, and the loop goes on to the next sibling.
C25_HiddenElementSkipped ==
    [][HiddenCallEnds =>
          /\ ~last'.kept
          /\ element_counter' = element_counter + 1
          /\ last'.index = element_counter'
          /\ elements' = elements
          /\ Len(stack') = Len(stack)
          /\ \A i \in 1..Len(stack) : stack'[i].data = stack[i].data
          /\ Pending' = Pending - 1
          /\ pc' = "extract"]_vars

\* the first of two top-level elements is an icon with a tint and a child
\* element, and has no box; the second is still to be parsed
C25_Witness ==
    /\ pc = "extract"
    /\ last.index = 1 /\ element_counter = 1
    /\ last.data.geom.width = 0
    /\ IsIcon(last.data.classes)
    /\ last.answer_children = 1
    /\ ~last.kept
    /\ elements = <<>>
    /\ top_remaining = 1

----------------------------------------------------------------------------
(* The page after a raster capture *)

\* C27: after every raster capture, whether it returned a path, returned None
\* or raised, the page is as it was before: the slide container's temporary
\* translateY is cleared and no temporary clone container is left.
C27_PageRestored == page = CleanPage

----------------------------------------------------------------------------
(* The wait for the icon font *)

\* the waits in the log
WaitsIn(log) == { k \in 1..Len(log) : log[k] \in WaitOutcomes \cup {"raise"} }

\* the wait has timed out
TimedOut == \E k \in 1..Len(browser_log) : browser_log[k] = "timeout"

\* the slide containers are listed, or a slide is extracted, only after the
\* one wait, which came after the load
WaitedOnceBefore ==
    /\ Cardinality(WaitsIn(browser_log)) <= 1
    /\ \A k \in WaitsIn(browser_log) : k = 2 /\ browser_log[1] = "get"
    /\ \A k \in 1..Len(browser_log) :
          browser_log[k] = "find_slides" => k = 3 /\ WaitsIn(browser_log) = {2}
    /\ (slides_data # <<>> \/ file_pc \in {"extract", "render", "saved"}) =>
          /\ Len(browser_log) = 3
          /\ browser_log[1] = "get"
          /\ browser_log[2] \in WaitOutcomes
          /\ browser_log[3] = "find_slides"

\* C26: for every file the bounded wait for the icon font is performed
\* exactly once, after the document is loaded and before any slide container
\* is located or any element extracted; when the wait times out, the
\* extraction of the file still proceeds: the step of the timeout leads to
\* the listing of the slide containers, and the file does not fail.
C26_WaitOncePerFile ==
    /\ []WaitedOnceBefore
    /\ [](TimedOut => file_pc \in {"find", "extract", "render", "saved"})
    /\ [][(TimedOut' /\ ~TimedOut) => (file_pc = "wait" /\ file_pc' = "find")]_vars

\* a presentation of two slides was saved after the wait had timed out
C26_Witness ==
    /\ file_pc = "saved"
    /\ browser_log = <<"get", "timeout", "find_slides">>
    /\ Len(prs_slides) = 2

----------------------------------------------------------------------------
(* The containers of a slide and the order of extraction *)

\* the paths of the child elements of the element at a path
KidPaths(forest, path) == [k \in 1..Len(KidsAt(forest, path)) |-> Append(path, k)]

\* the child elements of every container found with a class
KidPathsOfFound(forest, found) ==
    IF found = <<>> THEN <<>> ELSE KidPaths(forest, found[1])

\* the elements the extractor is to be run on, in order: the children of the
\* header, then of the content container; those of the slide when there is
\* neither
ExpectedCalls(forest) ==
    IF find_element(forest, "slide-header") = <<>> /\ find_element(forest, "slide-content") = <<>>
    THEN KidPaths(forest, <<>>)
    ELSE KidPathsOfFound(forest, find_element(forest, "slide-header"))
         \o KidPathsOfFound(forest, find_element(forest, "slide-content"))

\* the calls made by extract_data_from_html itself
TopVisits == SelectSeq(visits, LAMBDA v : v.top)

\* the nodes of slide_data.elements are results of those calls, in their order
AppendedInOrder ==
    /\ \A k \in 1..Len(elements) : \E j \in 1..Len(TopVisits) : TopVisits[j].index = elements[k].index
    /\ \A k \in 1..(Len(elements) - 1) : elements[k].index < elements[k + 1].index

SlideExtracted == dom_pc \in {"extracted", "rendered"}

\* C24: when a slide has been extracted, the extractor has been called once
\* for each child of the header container and then once for each child of the
\* content container, or, when the slide has neither, once for each child of
\* the slide container; the surviving nodes are slide_data.elements in the
\* order of the calls
C24_ContainersInOrder ==
    SlideExtracted =>
        /\ [k \in 1..Len(TopVisits) |-> TopVisits[k].path] = ExpectedCalls(slide_dom)
        /\ AppendedInOrder

\* the same where no call raised
C24_WithoutException ==
    (SlideExtracted /\ container_k > Len(containers_to_process)) =>
        /\ [k \in 1..Len(TopVisits) |-> TopVisits[k].path] = ExpectedCalls(slide_dom)
        /\ AppendedInOrder

----------------------------------------------------------------------------
(* The raster files of a slide *)

RasterSuffixes == {"icon", "code_block"}

\* no two calls of parse_element_recursively of the slide have the same index
DistinctIndexes ==
    \A i, j \in 1..Len(visits) : i # j => visits[i].index # visits[j].index

\* every file was written by a call of the slide, at the index of that call
WrittenAtIndex ==
    \A i \in 1..Len(raster_files) :
        /\ \E v \in 1..Len(visits) :
              /\ visits[v].index = raster_files[i].index
              /\ visits[v].path = raster_files[i].element
        /\ \E suffix \in RasterSuffixes :
              raster_files[i].file = RasterPath(dom_i, raster_files[i].index, suffix)

\* no path is written twice in the slide
DistinctInSlide ==
    \A i, j \in 1..Len(raster_files) : i # j => raster_files[i].file # raster_files[j].file

\* a path written for this slide is the path of no element index of another
\* slide of the file
DistinctAcrossSlides ==
    \A i \in 1..Len(raster_files) :
        \A s \in 0..(MaxSlides - 1), k \in 1..element_counter, suffix \in RasterSuffixes :
            RasterPath(s, k, suffix) = raster_files[i].file => s = dom_i

\* the captured nodes of the slide carry different paths
DistinctOnNodes ==
    \A m, n \in NodesOf(elements) :
        (m.icon_path # None /\ n.icon_path # None /\ m.index # n.index) => m.icon_path # n.icon_path

\* C28: the calls of the extractor in a slide have different indexes, each
\* raster file is written under the slide index and the index of the call
\* that captured it, and so no two raster files of the slide, and no raster
\* file of the slide and one of another slide of the file, have the same path
C28_DistinctRasterPaths ==
    /\ DistinctIndexes
    /\ WrittenAtIndex
    /\ DistinctInSlide
    /\ DistinctAcrossSlides
    /\ DistinctOnNodes

\* a rendered slide in which an icon and a code block were captured and one
\* element was captured twice
C28_Witness ==
    /\ dom_pc = "rendered"
    /\ Len(raster_files) >= 3
    /\ \E i, j \in 1..Len(raster_files) :
          i # j /\ raster_files[i].element = raster_files[j].element
    /\ \E i \in 1..Len(raster_files) : raster_files[i].file[3] = "code_block"

----------------------------------------------------------------------------
(* Elements extracted more than once *)

\* the element a call of the slide was made for
ElementOfIndex(index) ==
    (CHOOSE v \in { visits[k] : k \in 1..Len(visits) } : v.index = index).path

\* no element of the slide is handed to the extractor twice
VisitedOnce ==
    \A i, j \in 1..Len(visits) : i # j => visits[i].path # visits[j].path

\* no two scene nodes of the slide come from the same element
OneNodePerElement ==
    \A m, n \in NodesOf(elements) :
        m.index # n.index => ElementOfIndex(m.index) # ElementOfIndex(n.index)

\* no two shapes of the same kind are made for the same element
OneShapePerElement ==
    \A p, q \in 1..Len(shapes) :
        (p # q /\ shapes[p].shape = shapes[q].shape)
            => ElementOfIndex(shapes[p].node) # ElementOfIndex(shapes[q].node)

\* C29: wherever the header and the content container are in the slide,
\* every element is extracted at most once, gives at most one scene node and
\* at most one shape of a kind
C29_ExtractedAtMostOnce ==
    /\ VisitedOnce
    /\ OneNodePerElement
    /\ OneShapePerElement

\* the header is inside the content container or the content container
\* inside the header
OneInsideTheOther(forest) ==
    /\ find_element(forest, "slide-header") # <<>>
    /\ find_element(forest, "slide-content") # <<>>
    /\ \/ IsPrefix(find_element(forest, "slide-header")[1], find_element(forest, "slide-content")[1])
       \/ IsPrefix(find_element(forest, "slide-content")[1], find_element(forest, "slide-header")[1])

\* the same where neither container is inside the other
C29_ContainersApart == ~OneInsideTheOther(slide_dom) => C29_ExtractedAtMostOnce

============================================================================
